---------------------------- MODULE Spec2Model ----------------------------
(***************************************************************************)
(* Rough-cut decision engine (backend/core/rough_cut.py) and the thought   *)
(* grouper it calls (backend/thought_grouper.py).                          *)
(*                                                                         *)
(* Conventions of the model                                                *)
(*  - a text is a sequence of one-character strings; a word of the         *)
(*    transcript is a non-empty text without white space;                  *)
(*  - times are integers in hundredths of a second (2.0 s = 200);          *)
(*  - audio energies are integers in thousandths (0.08 = 80);              *)
(*  - a ratio (difflib ratio, Jaccard score) is a pair <<num, den>>,       *)
(*    den > 0, compared by cross multiplication;                           *)
(*  - Python's 0-based positions are 1-based here.                         *)
(***************************************************************************)
EXTENDS Integers, Sequences, FiniteSets, TLC

VARIABLES words, audio, llm_editor, ml_model, segments, prev, stats, pc, clips,
          data_file, state_file, checked,
          tasks, lock, worker, poller,
          grouper,
          clock, threads

vars == <<words, audio, llm_editor, ml_model, segments, prev, stats, pc, clips,
          data_file, state_file, checked, tasks, lock, worker, poller,
          grouper, clock, threads>>

---------------------------------------------------------------------------
(* Characters and the string primitives of Python that the code uses.      *)

LowerLetters ==
  {"a","b","c","d","e","f","g","h","i","j","k","l","m",
   "n","o","p","q","r","s","t","u","v","w","x","y","z"}

UpperToLower ==
  ("A" :> "a") @@ ("B" :> "b") @@ ("C" :> "c") @@ ("D" :> "d") @@
  ("E" :> "e") @@ ("F" :> "f") @@ ("G" :> "g") @@ ("H" :> "h") @@
  ("I" :> "i") @@ ("J" :> "j") @@ ("K" :> "k") @@ ("L" :> "l") @@
  ("M" :> "m") @@ ("N" :> "n") @@ ("O" :> "o") @@ ("P" :> "p") @@
  ("Q" :> "q") @@ ("R" :> "r") @@ ("S" :> "s") @@ ("T" :> "t") @@
  ("U" :> "u") @@ ("V" :> "v") @@ ("W" :> "w") @@ ("X" :> "x") @@
  ("Y" :> "y") @@ ("Z" :> "z")

UpperLetters == DOMAIN UpperToLower

LowerChar(c) == IF c \in UpperLetters THEN UpperToLower[c] ELSE c

\* \w of the regular expressions (the alphabet of the model has no digits)
IsWordChar(c) == c \in LowerLetters \/ c \in UpperLetters

IsSpace(c) == c = " "

TerminalPunct == {".", "!", "?"}

\* str.lower()
Lower(t) == [i \in 1..Len(t) |-> LowerChar(t[i])]

\* re.sub(r'[^\w\s]', '', t)
StripPunct(t) == SelectSeq(t, LAMBDA c : IsWordChar(c) \/ IsSpace(c))

\* re.sub(r"[^\w\s']", '', t)
StripPunctKeepApos(t) ==
  SelectSeq(t, LAMBDA c : IsWordChar(c) \/ IsSpace(c) \/ c = "'")

\* re.sub(r'[^\w]', '', t)
OnlyWordChars(t) == SelectSeq(t, LAMBDA c : IsWordChar(c))

\* re.sub(r'[^\w\']', '', t)
OnlyWordCharsApos(t) == SelectSeq(t, LAMBDA c : IsWordChar(c) \/ c = "'")

\* str.strip()
Strip(t) ==
  LET nonsp == {i \in 1..Len(t) : ~IsSpace(t[i])}
  IN  IF nonsp = {} THEN <<>>
      ELSE LET lo == CHOOSE i \in nonsp : \A j \in nonsp : i <= j
               hi == CHOOSE i \in nonsp : \A j \in nonsp : j <= i
           IN  SubSeq(t, lo, hi)

\* str.rstrip()
RStrip(t) ==
  LET nonsp == {i \in 1..Len(t) : ~IsSpace(t[i])}
  IN  IF nonsp = {} THEN <<>>
      ELSE SubSeq(t, 1, CHOOSE i \in nonsp : \A j \in nonsp : j <= i)

\* str.split(): the maximal runs of non-space characters, in order; a run
\* starts at a non-space character that follows a space or opens the text
Split(t) ==
  LET starts == SelectSeq([i \in 1..Len(t) |-> i],
                          LAMBDA i : ~IsSpace(t[i]) /\ (i = 1 \/ IsSpace(t[i - 1])))
      EndOf(i) == CHOOSE j \in i..Len(t) :
                    /\ \A m \in i..j : ~IsSpace(t[m])
                    /\ (j = Len(t) \/ IsSpace(t[j + 1]))
  IN  [k \in 1..Len(starts) |-> SubSeq(t, starts[k], EndOf(starts[k]))]

\* ' '.join(tokens)
RECURSIVE JoinFrom(_, _)
JoinFrom(toks, k) ==
  IF k > Len(toks) THEN <<>>
  ELSE IF k = Len(toks) THEN toks[k]
  ELSE toks[k] \o <<" ">> \o JoinFrom(toks, k + 1)

Join(toks) == JoinFrom(toks, 1)

\* t.startswith(p)
StartsWith(t, p) ==
  /\ Len(p) <= Len(t)
  /\ \A k \in 1..Len(p) : t[k] = p[k]

\* t.endswith(('.', '!', '?'))
EndsWithTerminal(t) == Len(t) > 0 /\ t[Len(t)] \in TerminalPunct

\* needle in hay
Contains(hay, needle) ==
  \E i \in 0..(Len(hay) - Len(needle)) :
     \A k \in 1..Len(needle) : hay[i + k] = needle[k]

\* position (1-based) of the last character of t that is in cs, 0 when none:
\* max(t.rfind(c) for c in cs) + 1
RFindAny(t, cs) ==
  LET hits == {i \in 1..Len(t) : t[i] \in cs}
  IN  IF hits = {} THEN 0 ELSE CHOOSE i \in hits : \A j \in hits : j <= i

\* the elements of a sequence, as a set
Range(s) == {s[i] : i \in 1..Len(s)}

\* the elements of s at the positions in keep, in order
KeepAt(s, keep) ==
  LET idx == SelectSeq([i \in 1..Len(s) |-> i], LAMBDA i : i \in keep)
  IN  [k \in 1..Len(idx) |-> s[idx[k]]]

\* s[:k] and s[-m:] of Python, for k, m >= 0
Prefix(s, k) == SubSeq(s, 1, IF k <= Len(s) THEN k ELSE Len(s))
Suffix(s, m) == IF m = 0 THEN s ELSE SubSeq(s, IF m >= Len(s) THEN 1 ELSE Len(s) - m + 1, Len(s))

\* the concatenation of a sequence of sequences
RECURSIVE Flatten(_)
Flatten(ss) == IF ss = <<>> THEN <<>> ELSE Head(ss) \o Flatten(Tail(ss))

Min(a, b) == IF a <= b THEN a ELSE b
Max(a, b) == IF a >= b THEN a ELSE b

---------------------------------------------------------------------------
(* Ratios.                                                                 *)

\* r > p/100
RatioGT(r, p) == r[1] * 100 > p * r[2]
\* r < p/100
RatioLT(r, p) == r[1] * 100 < p * r[2]
\* max(r, s)
RatioMax(r, s) == IF r[1] * s[2] >= s[1] * r[2] THEN r ELSE s

---------------------------------------------------------------------------
(* difflib.SequenceMatcher(None, a, b).ratio() for texts shorter than 200  *)
(* characters (no automatic junk below that length).                       *)

\* length of the common run of a from i and b from j, inside the windows
RECURSIVE RunLen(_, _, _, _, _, _)
RunLen(a, b, i, j, ahi, bhi) ==
  IF i <= ahi /\ j <= bhi /\ a[i] = b[j]
  THEN 1 + RunLen(a, b, i + 1, j + 1, ahi, bhi)
  ELSE 0

\* find_longest_match: the longest block, the earliest in a, then in b;
\* <<i, j, k>> with k = 0 when the windows share no character
LongestMatch(a, b, alo, ahi, blo, bhi) ==
  LET starts == {p \in (alo..ahi) \X (blo..bhi) :
                   /\ a[p[1]] = b[p[2]]
                   /\ \/ p[1] = alo
                      \/ p[2] = blo
                      \/ a[p[1] - 1] # b[p[2] - 1]}
      blocks == {<<p[1], p[2], RunLen(a, b, p[1], p[2], ahi, bhi)>> : p \in starts}
      Better(x, y) == \/ x[3] > y[3]
                      \/ x[3] = y[3] /\ x[1] < y[1]
                      \/ x[3] = y[3] /\ x[1] = y[1] /\ x[2] <= y[2]
  IN  IF blocks = {} THEN <<alo, blo, 0>>
      ELSE CHOOSE x \in blocks : \A y \in blocks : Better(x, y)

\* get_matching_blocks: total size of the blocks found recursively
RECURSIVE MatchingSize(_, _, _, _, _, _)
MatchingSize(a, b, alo, ahi, blo, bhi) ==
  IF alo > ahi \/ blo > bhi THEN 0
  ELSE LET m == LongestMatch(a, b, alo, ahi, blo, bhi)
       IN  IF m[3] = 0 THEN 0
           ELSE m[3]
                + MatchingSize(a, b, alo, m[1] - 1, blo, m[2] - 1)
                + MatchingSize(a, b, m[1] + m[3], ahi, m[2] + m[3], bhi)

SequenceMatcherRatio(a, b) ==
  IF Len(a) + Len(b) = 0 THEN <<1, 1>>
  ELSE <<2 * MatchingSize(a, b, 1, Len(a), 1, Len(b)), Len(a) + Len(b)>>


---------------------------------------------------------------------------
(* ProfessionalRoughCutV2: thresholds set by __init__.                     *)

SILENCE_THRESHOLD == 200
SENTENCE_SPLIT_GAP == 40
MIN_SEGMENT_LENGTH == 3

\* the counters of self.stats
ZeroStats ==
  [silences_removed |-> 0, silence_duration_removed |-> 0,
   repetitions_removed |-> 0, cut_that_signals |-> 0,
   incomplete_sentences |-> 0, phrase_stutters_removed |-> 0,
   fluff_removed |-> 0]

\* w.get('isDeleted', False)
IsDeleted(w) == "isDeleted" \in DOMAIN w /\ w.isDeleted

\* a word record that holds the three keys the engine reads with w[key]
WellFormed(w) == {"word", "start", "end"} \subseteq DOMAIN w

\* ' '.join(self.words[idx]['word'] for idx in indices)
TextOf(W, indices) == Join([k \in 1..Len(indices) |-> W[indices[k]].word])

\* the same join over the words not flagged isDeleted
LiveIndices(W, indices) == SelectSeq(indices, LAMBDA idx : ~IsDeleted(W[idx]))

---------------------------------------------------------------------------
(* The audio port.  self.audio_analyzer is None ("none"), an analyzer that *)
(* failed to load its media (is_ready False: get_features returns {}), or  *)
(* a ready analyzer.  A ready analyzer is a table: the average energy of   *)
(* the pause between two consecutive words, and the average energy of a    *)
(* span of speech, looked up by the word the span starts with.             *)

HasAnalyzer(A) == A.kind # "none"

\* (variant) an analyzer that is not ready answers with a loud signal
AvgEnergyOfUnready(A, W, s, e) == IF A.kind = "none" THEN 0 ELSE 1000

\* get_features(start, end).get('avg_energy', 0)
AvgEnergy(A, W, s, e) ==
  IF A.kind # "ready" THEN 0
  ELSE IF \E k \in 1..(Len(W) - 1) : W[k].end = s /\ W[k + 1].start = e /\ s < e
       THEN A.gap
       ELSE LET at == {k \in 1..Len(W) : W[k].start = s}
            IN  IF at = {} THEN 0
                ELSE A.speech[CHOOSE k \in at : \A j \in at : k <= j]

---------------------------------------------------------------------------
(* _get_keywords and _calculate_similarity                                 *)

KeywordStops ==
  {<<"t","h","e">>, <<"a">>, <<"a","n">>, <<"i","s">>, <<"a","r","e">>,
   <<"w","a","s">>, <<"w","e","r","e">>, <<"t","o">>, <<"o","f">>,
   <<"i","n">>, <<"o","n">>, <<"a","t">>, <<"f","o","r">>,
   <<"w","i","t","h">>, <<"a","s">>, <<"b","y">>, <<"a","n","d">>,
   <<"o","r">>, <<"b","u","t">>, <<"s","o">>, <<"i","f">>,
   <<"t","h","e","n">>, <<"i","t">>, <<"t","h","a","t">>, <<"t","h","i","s">>,
   <<"i">>, <<"y","o","u">>, <<"h","e">>, <<"s","h","e">>, <<"w","e">>,
   <<"t","h","e","y">>, <<"a","l","m","o","s","t">>, <<"m","a","y","b","e">>,
   <<"p","e","r","h","a","p","s">>, <<"j","u","s","t">>, <<"w","e","l","l">>,
   <<"l","i","k","e">>, <<"r","e","a","l","l","y">>, <<"v","e","r","y">>,
   <<"o","n","e">>, <<"t","w","o">>, <<"a","b","o","u","t">>,
   <<"s","o","m","e">>, <<"m","o","r","e">>, <<"m","o","s","t">>}

GetKeywords(text) ==
  {w \in Range(Split(StripPunctKeepApos(Lower(text)))) :
     w \notin KeywordStops /\ Len(w) > 2}

\* intersection / union of two keyword sets, 0.0 when either is empty
Jaccard(k1, k2) ==
  IF k1 = {} \/ k2 = {} THEN <<0, 1>>
  ELSE <<Cardinality(k1 \cap k2), Cardinality(k1 \cup k2)>>

CalculateSimilarity(text1, text2) ==
  LET t1_clean == StripPunctKeepApos(Strip(Lower(text1)))
      t2_clean == StripPunctKeepApos(Strip(Lower(text2)))
      struct_score == SequenceMatcherRatio(t1_clean, t2_clean)
      sem_score == Jaccard(GetKeywords(text1), GetKeywords(text2))
  IN  IF RatioLT(sem_score, 70)
      THEN <<struct_score[1] * 4, struct_score[2] * 10>>
      ELSE RatioMax(struct_score, sem_score)

---------------------------------------------------------------------------
(* Step 1: _split_by_silence                                               *)

\* a KeyError: every word's start and end are read, and the text of every
\* word that is not flagged isDeleted
SplitRaises(W) ==
  \E i \in 1..Len(W) :
     \/ "start" \notin DOMAIN W[i]
     \/ "end" \notin DOMAIN W[i]
     \/ ~IsDeleted(W[i]) /\ "word" \notin DOMAIN W[i]

SilenceSegment(W, cur, startIdx, endIdx) ==
  [word_indices |-> cur,
   start_time |-> W[startIdx].start,
   end_time |-> W[endIdx].end,
   text |-> TextOf(W, LiveIndices(W, cur))]

\* (variant) any analyzer at all keeps the words joined
IsTrueSilenceWithoutAnalyzer(W, A, i) == ~HasAnalyzer(A)

\* smart silence recovery: energy in the pause keeps the words joined
IsTrueSilence(W, A, i) ==
  ~(HasAnalyzer(A) /\ AvgEnergy(A, W, W[i].end, W[i + 1].start) > 80)

RECURSIVE SplitLoop(_, _, _, _, _, _, _)
SplitLoop(W, A, i, cur, startIdx, segs, st) ==
  IF i > Len(W)
  THEN [segments |-> IF cur = <<>> THEN segs
                     ELSE Append(segs, SilenceSegment(W, cur, startIdx, Len(W))),
        stats |-> st]
  ELSE LET cur2 == Append(cur, i)
           gap == IF i < Len(W) THEN W[i + 1].start - W[i].end ELSE 0
       IN  IF i < Len(W) /\ gap > SILENCE_THRESHOLD /\ IsTrueSilence(W, A, i)
           THEN SplitLoop(W, A, i + 1, <<>>, i + 1,
                          Append(segs, SilenceSegment(W, cur2, startIdx, i)),
                          [st EXCEPT !.silences_removed = @ + 1,
                                     !.silence_duration_removed = @ + gap])
           ELSE SplitLoop(W, A, i + 1, cur2, startIdx, segs, st)

SplitBySilence(W, A, st) ==
  IF Len(W) = 0 THEN [segments |-> <<>>, stats |-> st]
  ELSE SplitLoop(W, A, 1, <<>>, 1, <<>>, st)

---------------------------------------------------------------------------
(* Step 1.1: _textual_scrub                                                *)

\* pass 1: segment i is a subset or a fuzzy match of segment i+1
ScrubbedBySubset(segs, i) ==
  LET curr_text == Strip(StripPunct(Lower(segs[i].text)))
      next_text == Strip(StripPunct(Lower(segs[i + 1].text)))
  IN  /\ curr_text # <<>>
      /\ next_text # <<>>
      /\ Len(curr_text) < Len(next_text)
      /\ \/ Contains(next_text, curr_text)
         \/ RatioGT(SequenceMatcherRatio(curr_text, next_text), 85)

\* pass 2: fewer than 3 words spoken at less than 0.8 words per second
ScrubbedAsSlow(seg) ==
  LET duration == seg.end_time - seg.start_time
      word_count == Len(seg.word_indices)
  IN  /\ duration > 50
      /\ word_count * 1000 < 8 * duration
      /\ word_count < 3

TextualScrub(segs, st) ==
  LET scrubbed == {i \in 1..(Len(segs) - 1) : ScrubbedBySubset(segs, i)}
      slow == {i \in 1..Len(segs) : i \notin scrubbed /\ ScrubbedAsSlow(segs[i])}
      keep == {i \in 1..Len(segs) : i \notin scrubbed /\ i \notin slow}
  IN  [segments |-> KeepAt(segs, keep),
       stats |-> [st EXCEPT !.repetitions_removed = @ + Cardinality(scrubbed),
                            !.fluff_removed = @ + Cardinality(slow)]]

---------------------------------------------------------------------------
(* Step 1.5: _refine_segmentation                                          *)

\* a KeyError: the text of every word of every segment is read
RefineRaises(W, segs) ==
  \E s \in 1..Len(segs) :
     \E k \in 1..Len(segs[s].word_indices) :
        "word" \notin DOMAIN W[segs[s].word_indices[k]]

\* a sub-split falls between the i-th and the (i+1)-th word of the segment
SubSplitAfter(W, A, indices, i) ==
  LET w1 == W[indices[i]]
      w2 == W[indices[i + 1]]
  IN  \/ EndsWithTerminal(Strip(w1.word))
      \/ /\ w2.start - w1.end > SENTENCE_SPLIT_GAP
         /\ ~(HasAnalyzer(A) /\ AvgEnergy(A, W, w1.end, w2.start) > 100)

PlainSegment(W, indices) ==
  [word_indices |-> indices,
   start_time |-> W[indices[1]].start,
   end_time |-> W[indices[Len(indices)]].end,
   text |-> TextOf(W, indices)]

RefineSegment(W, A, seg) ==
  LET indices == seg.word_indices
      n == Len(indices)
      cuts == {i \in 1..(n - 1) : SubSplitAfter(W, A, indices, i)}
      starts == SelectSeq([i \in 1..n |-> i], LAMBDA i : i = 1 \/ (i - 1) \in cuts)
      EndOf(s) == IF s = Len(starts) THEN n ELSE starts[s + 1] - 1
  IN  [s \in 1..Len(starts) |->
         PlainSegment(W, SubSeq(indices, starts[s], EndOf(s)))]

RefineSegmentation(W, A, segs) ==
  Flatten([s \in 1..Len(segs) |-> RefineSegment(W, A, segs[s])])

---------------------------------------------------------------------------
(* Step 2: _process_cut_that_signals                                       *)

CutThatText == <<"c","u","t"," ","t","h","a","t">>
CutThisText == <<"c","u","t"," ","t","h","i","s">>

HasCutSignal(seg) ==
  \/ Contains(Lower(seg.text), CutThatText)
  \/ Contains(Lower(seg.text), CutThisText)

\* the token loop: words before the first "cut that|this" pair and after it
RECURSIVE CutScan(_, _, _, _, _)
CutScan(words_list, i, in_after, before_words, after_words) ==
  IF i > Len(words_list)
  THEN [before_words |-> before_words, after_words |-> after_words]
  ELSE IF /\ ~in_after
          /\ OnlyWordChars(Lower(words_list[i])) = <<"c","u","t">>
          /\ i < Len(words_list)
          /\ OnlyWordChars(Lower(words_list[i + 1])) \in {<<"t","h","a","t">>,
                                                          <<"t","h","i","s">>}
       THEN CutScan(words_list, i + 2, TRUE, before_words, after_words)
       ELSE IF in_after
            THEN CutScan(words_list, i + 1, in_after, before_words,
                         Append(after_words, words_list[i]))
            ELSE CutScan(words_list, i + 1, in_after,
                         Append(before_words, words_list[i]), after_words)

\* (variant) everything in front of the signal is kept
KeptBeforeWhole(before_words) == Strip(Join(before_words))

\* the text kept in front of the signal: up to the end of the last sentence
\* that closes before the last word in front of the signal
KeptBefore(before_words) ==
  LET before_text == Strip(Join(before_words))
      search_text == IF before_text # <<>> /\ before_text[Len(before_text)] \in TerminalPunct
                     THEN SubSeq(before_text, 1, Len(before_text) - 1)
                     ELSE before_text
      last_sentence_end == RFindAny(search_text, TerminalPunct)
  IN  \* Python tests the 0-based position: last_sentence_end > 0
      IF last_sentence_end - 1 > 0
      THEN Strip(SubSeq(before_text, 1, last_sentence_end))
      ELSE <<>>

\* (variant) a segment of which nothing is left is passed on without words
CutSegmentPassedOn(W, seg) ==
  LET scan == CutScan(Split(seg.text), 1, FALSE, <<>>, <<>>)
      kept_before == KeptBefore(scan.before_words)
      new_text == Strip(kept_before \o <<" ">> \o Join(scan.after_words))
      new_indices ==
        (IF kept_before # <<>>
         THEN Prefix(seg.word_indices, Len(Split(kept_before))) ELSE <<>>)
        \o (IF scan.after_words # <<>>
            THEN Suffix(seg.word_indices, Len(scan.after_words)) ELSE <<>>)
  IN  IF new_indices = <<>>
      THEN << [seg EXCEPT !.word_indices = new_indices, !.text = new_text] >>
      ELSE << [word_indices |-> new_indices,
               start_time |-> W[new_indices[1]].start,
               end_time |-> W[new_indices[Len(new_indices)]].end,
               text |-> new_text] >>

\* the segment after the cut, or <<>> when nothing of it is left
CutSegment(W, seg) ==
  LET scan == CutScan(Split(seg.text), 1, FALSE, <<>>, <<>>)
      kept_before == KeptBefore(scan.before_words)
      new_text == Strip(kept_before \o <<" ">> \o Join(scan.after_words))
      kept_before_count == Len(Split(kept_before))
      after_count == Len(scan.after_words)
      new_indices ==
        (IF kept_before_count > 0
         THEN Prefix(seg.word_indices, kept_before_count) ELSE <<>>)
        \o (IF after_count > 0
            THEN Suffix(seg.word_indices, after_count) ELSE <<>>)
  IN  IF new_text = <<>> THEN <<>>
      ELSE IF new_indices = <<>>
           THEN << [seg EXCEPT !.word_indices = new_indices, !.text = new_text] >>
           ELSE << [word_indices |-> new_indices,
                    start_time |-> W[new_indices[1]].start,
                    end_time |-> W[new_indices[Len(new_indices)]].end,
                    text |-> new_text] >>

ProcessCutThatSignals(W, segs, st) ==
  LET signalled == {s \in 1..Len(segs) : HasCutSignal(segs[s])}
  IN  [segments |-> Flatten([s \in 1..Len(segs) |->
                               IF s \in signalled THEN CutSegment(W, segs[s])
                               ELSE <<segs[s]>>]),
       stats |-> [st EXCEPT !.cut_that_signals = @ + Cardinality(signalled)]]

---------------------------------------------------------------------------
(* Step 3: _remove_incomplete_sentences                                    *)

RestartsUnpunctuated ==
  {<<"s","o"," ">>, <<"i"," ","m","e","a","n">>,
   <<"w","h","a","t"," ","i"," ","m","e","a","n","t">>,
   <<"l","e","t"," ","m","e">>, <<"a","c","t","u","a","l","l","y">>,
   <<"t","h","e"," ">>, <<"i","t"," ">>, <<"i"," ">>}

RestartsPunctuated ==
  {<<"s","o"," ">>, <<"i"," ","m","e","a","n">>,
   <<"w","h","a","t"," ","i"," ","m","e","a","n","t">>,
   <<"l","e","t"," ","m","e">>, <<"a","c","t","u","a","l","l","y">>,
   <<"t","h","e"," ">>, <<"i","t"," ">>}

ConnectorsUnpunctuated ==
  {<<"a","n","d">>, <<"b","u","t">>, <<"s","o">>, <<"o","r">>,
   <<"t","h","e","n">>, <<"b","e","c","a","u","s","e">>, <<"t","h","e">>,
   <<"a">>}

ConnectorsTrailing ==
  {<<"a","n","d">>, <<"b","u","t">>, <<"s","o">>, <<"o","r">>,
   <<"t","h","e","n">>, <<"b","e","c","a","u","s","e">>, <<"t","h","e">>,
   <<"a">>, <<"a","l","m","o","s","t">>, <<"v","e","r","y">>,
   <<"r","e","a","l","l","y">>, <<"t","o","o">>, <<"q","u","i","t","e">>,
   <<"i","s">>, <<"a","r","e">>, <<"w","a","s">>, <<"w","e","r","e">>,
   <<"a","m">>, <<"i","n">>, <<"o","n">>, <<"a","t">>, <<"f","o","r">>,
   <<"w","i","t","h">>, <<"b","y">>, <<"o","f">>, <<"i","f">>,
   <<"w","h","e","n">>, <<"w","h","i","l","e">>,
   <<"a","l","t","h","o","u","g","h">>}

ConnectorsLastSegment ==
  {<<"a","n","d">>, <<"b","u","t">>, <<"s","o">>, <<"o","r">>,
   <<"t","h","e","n">>, <<"b","e","c","a","u","s","e">>, <<"t","h","e">>,
   <<"a">>, <<"t","o">>, <<"w","i","t","h">>}

\* the next segment opens with one of the restart cues
NextRestarts(segs, i, restarts) ==
  /\ i < Len(segs)
  /\ \E r \in restarts : StartsWith(Lower(segs[i + 1].text), r)

\* (variant) drop the first element: s[1:]
DropFirst(s) == IF s = <<>> THEN <<>> ELSE Tail(s)

\* drop the last element: s[:-1]
DropLast(s) == IF s = <<>> THEN <<>> ELSE SubSeq(s, 1, Len(s) - 1)

\* a segment without any terminal mark: its trailing connector is trimmed,
\* and a short one followed by a restart is dropped
TrimUnpunctuated(W, segs, i) ==
  LET seg == segs[i]
      words_text == Split(seg.text)
      trims == /\ words_text # <<>>
               /\ Lower(words_text[Len(words_text)]) \in ConnectorsUnpunctuated
      word_indices == IF trims THEN DropLast(seg.word_indices) ELSE seg.word_indices
      trimmed == IF trims
                 THEN [seg EXCEPT !.word_indices = word_indices,
                                  !.text = Join(DropLast(words_text)),
                                  !.end_time = IF word_indices # <<>>
                                               THEN W[word_indices[Len(word_indices)]].end
                                               ELSE @]
                 ELSE seg
  IN  IF Len(word_indices) < 6 /\ NextRestarts(segs, i, RestartsUnpunctuated)
      THEN [kept |-> <<>>, counted |-> 0]
      ELSE [kept |-> IF word_indices # <<>> THEN <<trimmed>> ELSE <<>>,
            counted |-> 0]

\* the surgical cut: only the words up to the last terminal mark are kept
CutAfterPunct(W, seg, text, last_punct_idx) ==
  LET num_words_to_keep == Len(Split(SubSeq(text, 1, last_punct_idx)))
      word_indices == Prefix(seg.word_indices, num_words_to_keep)
  IN  [seg EXCEPT !.word_indices = word_indices,
                  !.text = TextOf(W, word_indices),
                  !.end_time = IF word_indices # <<>>
                               THEN W[word_indices[Len(word_indices)]].end
                               ELSE @]

TrimPunctuated(W, segs, i) ==
  LET seg == segs[i]
      text == Strip(seg.text)
      last_punct_idx == RFindAny(text, TerminalPunct)
      trailing_words == Split(Strip(SubSeq(text, last_punct_idx + 1, Len(text))))
      last_word == IF trailing_words = <<>> THEN <<>>
                   ELSE Lower(trailing_words[Len(trailing_words)])
      should_trim == /\ trailing_words # <<>>
                     /\ i < Len(segs)
                     /\ \/ NextRestarts(segs, i, RestartsPunctuated)
                        \/ last_word \in ConnectorsTrailing
      final_trim == /\ trailing_words # <<>>
                    /\ ~should_trim
                    /\ i = Len(segs)
                    /\ last_word \in ConnectorsLastSegment
      out == IF should_trim \/ final_trim
             THEN CutAfterPunct(W, seg, text, last_punct_idx)
             ELSE seg
  IN  [kept |-> IF out.word_indices # <<>> THEN <<out>> ELSE <<>>,
       counted |-> IF should_trim THEN 1 ELSE 0]

TrimSegment(W, segs, i) ==
  IF RFindAny(Strip(segs[i].text), TerminalPunct) = 0
  THEN TrimUnpunctuated(W, segs, i)
  ELSE TrimPunctuated(W, segs, i)

RECURSIVE SumCounted(_, _)
SumCounted(rs, k) == IF k > Len(rs) THEN 0 ELSE rs[k].counted + SumCounted(rs, k + 1)

RemoveIncompleteSentences(W, segs, st) ==
  LET rs == [i \in 1..Len(segs) |-> TrimSegment(W, segs, i)]
  IN  [segments |-> Flatten([i \in 1..Len(segs) |-> rs[i].kept]),
       stats |-> [st EXCEPT !.incomplete_sentences = @ + SumCounted(rs, 1)]]

---------------------------------------------------------------------------
(* Step 3.5: _process_incremental_takes                                    *)

\* str.replace(k, v): the occurrences of k, left to right, without overlap
RECURSIVE Replace(_, _, _)
Replace(t, k, v) ==
  IF Len(t) < Len(k) THEN t
  ELSE IF StartsWith(t, k)
       THEN v \o Replace(SubSeq(t, Len(k) + 1, Len(t)), k, v)
       ELSE <<t[1]>> \o Replace(SubSeq(t, 2, Len(t)), k, v)

\* the replacements of get_prefix, in the order of the dict
Contractions ==
  << <<<<"y","o","u","'","r","e">>, <<"y","o","u"," ","a","r","e">>>>, <<<<"i","'","m">>, <<"i"," ","a","m">>>>,
     <<<<"w","e","'","r","e">>, <<"w","e"," ","a","r","e">>>>, <<<<"t","h","e","y","'","r","e">>, <<"t","h","e","y"," ","a","r","e">>>>,
     <<<<"i","t","'","s">>, <<"i","t"," ","i","s">>>>, <<<<"h","e","'","s">>, <<"h","e"," ","i","s">>>>,
     <<<<"s","h","e","'","s">>, <<"s","h","e"," ","i","s">>>>, <<<<"t","h","a","t","'","s">>, <<"t","h","a","t"," ","i","s">>>>,
     <<<<"w","h","a","t","'","s">>, <<"w","h","a","t"," ","i","s">>>>, <<<<"d","o","n","'","t">>, <<"d","o"," ","n","o","t">>>>,
     <<<<"d","o","e","s","n","'","t">>, <<"d","o","e","s"," ","n","o","t">>>>, <<<<"d","i","d","n","'","t">>, <<"d","i","d"," ","n","o","t">>>>,
     <<<<"c","a","n","'","t">>, <<"c","a","n","n","o","t">>>>, <<<<"w","o","n","'","t">>, <<"w","i","l","l"," ","n","o","t">>>>,
     <<<<"i","s","n","'","t">>, <<"i","s"," ","n","o","t">>>>, <<<<"a","r","e","n","'","t">>, <<"a","r","e"," ","n","o","t">>>>,
     <<<<"w","a","s","n","'","t">>, <<"w","a","s"," ","n","o","t">>>>, <<<<"w","e","r","e","n","'","t">>, <<"w","e","r","e"," ","n","o","t">>>>,
     <<<<"i","'","v","e">>, <<"i"," ","h","a","v","e">>>>, <<<<"y","o","u","'","v","e">>, <<"y","o","u"," ","h","a","v","e">>>>,
     <<<<"w","e","'","v","e">>, <<"w","e"," ","h","a","v","e">>>>, <<<<"t","h","e","y","'","v","e">>, <<"t","h","e","y"," ","h","a","v","e">>>>,
     <<<<"i","'","l","l">>, <<"i"," ","w","i","l","l">>>>, <<<<"y","o","u","'","l","l">>, <<"y","o","u"," ","w","i","l","l">>>> >>

RECURSIVE Expand(_, _)
Expand(t, n) ==
  IF n > Len(Contractions) THEN t
  ELSE Expand(Replace(t, Contractions[n][1], Contractions[n][2]), n + 1)

\* get_prefix: the first four normalised tokens
GetPrefix(text) == Prefix(Split(StripPunct(Expand(Lower(text), 1))), 4)

\* the later segment opens with the whole anchor prefix, three tokens or more
PrefixMatches(anchor_prefix, later_prefix) ==
  /\ Len(anchor_prefix) >= 3
  /\ Len(later_prefix) >= Len(anchor_prefix)
  /\ \A k \in 1..Len(anchor_prefix) : anchor_prefix[k] = later_prefix[k]

\* the look-ahead for segments that share the prefix: at most 10 segments,
\* stopped by the first one that starts more than 30 s after the anchor ends
RECURSIVE ClusterFrom(_, _, _, _, _)
ClusterFrom(segs, i, j, limit, discard) ==
  IF j > limit THEN <<>>
  ELSE IF j \in discard THEN ClusterFrom(segs, i, j + 1, limit, discard)
  ELSE IF segs[j].start_time - segs[i].end_time > 3000 THEN <<>>
  ELSE (IF PrefixMatches(GetPrefix(segs[i].text), GetPrefix(segs[j].text))
        THEN <<j>> ELSE <<>>)
       \o ClusterFrom(segs, i, j + 1, limit, discard)

\* rules 1 to 3: take A supersedes take B
ShouldDeleteB(W, A, segs, idx_a, idx_b) ==
  LET seg_a == segs[idx_a]
      seg_b == segs[idx_b]
      text_a == StripPunct(Lower(seg_a.text))
      text_b == StripPunct(Lower(seg_b.text))
      sim == CalculateSimilarity(seg_a.text, seg_b.text)
      score_a == 10 * Len(seg_a.word_indices) + idx_a
      score_b == 10 * Len(seg_b.word_indices) + idx_b
      energy_a == AvgEnergy(A, W, seg_a.start_time, seg_a.end_time)
      energy_b == AvgEnergy(A, W, seg_b.start_time, seg_b.end_time)
  IN  IF Contains(text_a, text_b) /\ Len(text_b) < Len(text_a) THEN TRUE
      ELSE IF RatioGT(sim, 85)
      THEN \/ HasAnalyzer(A) /\ RatioGT(sim, 90) /\ 10 * energy_a > 13 * energy_b
           \/ score_a > score_b
      ELSE /\ Len(seg_b.word_indices) < Len(seg_a.word_indices)
           /\ ~EndsWithTerminal(Strip(seg_b.text))
           /\ StartsWith(text_a, text_b)

\* (variant) of two takes with the same keywords neither is kept
PairVerdictOnBoth(W, A, segs, idx_a, idx_b) ==
  LET seg_a == segs[idx_a]
      seg_b == segs[idx_b]
  IN  IF ShouldDeleteB(W, A, segs, idx_a, idx_b) THEN {idx_b}
      ELSE IF GetKeywords(seg_a.text) = GetKeywords(seg_b.text)
      THEN {idx_a, idx_b}
      ELSE {}

\* the indices that comparing A with B adds to the discard set
PairVerdict(W, A, segs, idx_a, idx_b) ==
  LET seg_a == segs[idx_a]
      seg_b == segs[idx_b]
      keywords_a == GetKeywords(seg_a.text)
      keywords_b == GetKeywords(seg_b.text)
      unique_a == keywords_a \ keywords_b
      unique_b == keywords_b \ keywords_a
      ends_a == EndsWithTerminal(Strip(seg_a.text))
      ends_b == EndsWithTerminal(Strip(seg_b.text))
  IN  IF ShouldDeleteB(W, A, segs, idx_a, idx_b) THEN {idx_b}
      ELSE IF keywords_a = keywords_b /\ Len(seg_a.text) < Len(seg_b.text)
      THEN {idx_a}
      ELSE IF unique_a # {} /\ unique_b # {} THEN {}
      ELSE IF RatioGT(CalculateSimilarity(seg_a.text, seg_b.text), 70)
      THEN (IF ends_a /\ ~ends_b THEN {idx_b}
            ELSE IF ends_b /\ ~ends_a THEN {idx_a}
            ELSE {})
      ELSE {}

\* the two nested loops over the sorted cluster; bi = 0 opens a round of A
RECURSIVE PairLoop(_, _, _, _, _, _, _)
PairLoop(W, A, segs, cluster, ai, bi, cd) ==
  IF ai > Len(cluster) THEN cd
  ELSE IF bi = 0
  THEN (IF cluster[ai] \in cd
        THEN PairLoop(W, A, segs, cluster, ai + 1, 0, cd)
        ELSE PairLoop(W, A, segs, cluster, ai, 1, cd))
  ELSE IF bi > Len(cluster) THEN PairLoop(W, A, segs, cluster, ai + 1, 0, cd)
  ELSE IF ai = bi \/ cluster[bi] \in cd
  THEN PairLoop(W, A, segs, cluster, ai, bi + 1, cd)
  ELSE PairLoop(W, A, segs, cluster, ai, bi + 1,
                cd \cup PairVerdict(W, A, segs, cluster[ai], cluster[bi]))

RECURSIVE TakesLoop(_, _, _, _, _, _)
TakesLoop(W, A, segs, i, discard, st) ==
  IF i > Len(segs) THEN [discard |-> discard, stats |-> st]
  ELSE IF i \in discard \/ GetPrefix(segs[i].text) = <<>>
  THEN TakesLoop(W, A, segs, i + 1, discard, st)
  ELSE LET cluster == <<i>> \o ClusterFrom(segs, i, i + 1,
                                           Min(Len(segs), i + 9), discard)
           cluster_discard == IF Len(cluster) > 1
                              THEN PairLoop(W, A, segs, cluster, 1, 0, {})
                              ELSE {}
       IN  TakesLoop(W, A, segs, i + 1, discard \cup cluster_discard,
                     [st EXCEPT !.repetitions_removed =
                                   @ + Cardinality(cluster_discard)])

\* the index of the while loop after one iteration: each of its three paths
\* ends in i += 1
TakesAdvance(segs, i) == i + 1

\* the indices the while loop visits from i on
RECURSIVE TakesVisits(_, _)
TakesVisits(segs, i) ==
  IF i > Len(segs) THEN <<>>
  ELSE <<i>> \o TakesVisits(segs, TakesAdvance(segs, i))

ProcessIncrementalTakes(W, A, segs, st) ==
  IF Len(segs) < 2 THEN [segments |-> segs, stats |-> st]
  ELSE LET r == TakesLoop(W, A, segs, 1, {}, st)
       IN  [segments |-> KeepAt(segs, (1..Len(segs)) \ r.discard),
            stats |-> r.stats]

---------------------------------------------------------------------------
(* Step 5: _remove_repetitions                                             *)

\* the length-weighted threshold, in hundredths
RepetitionThreshold(word_count) ==
  IF word_count <= 3 THEN 95 ELSE IF word_count <= 6 THEN 90 ELSE 85

\* the look-ahead of segment i: the later segments it discards because the
\* earlier take is louder, and whether a later version replaces segment i
RECURSIVE LaterScan(_, _, _, _, _, _)
LaterScan(W, A, segs, i, j, removed) ==
  IF j > Min(Len(segs), i + 9) THEN [removed |-> removed, found |-> FALSE]
  ELSE IF j \in removed THEN LaterScan(W, A, segs, i, j + 1, removed)
  ELSE IF segs[j].start_time - segs[i].end_time > 6000
  THEN [removed |-> removed, found |-> FALSE]
  ELSE LET similarity == CalculateSimilarity(segs[i].text, segs[j].text)
           threshold == RepetitionThreshold(Len(segs[i].word_indices))
           energy_i == AvgEnergy(A, W, segs[i].start_time, segs[i].end_time)
           energy_j == AvgEnergy(A, W, segs[j].start_time, segs[j].end_time)
       IN  IF ~RatioGT(similarity, threshold)
           THEN LaterScan(W, A, segs, i, j + 1, removed)
           ELSE IF HasAnalyzer(A) /\ 10 * energy_i > 12 * energy_j
           THEN LaterScan(W, A, segs, i, j + 1, removed \cup {j})
           ELSE [removed |-> removed \cup {i}, found |-> TRUE]

RECURSIVE RepetitionLoop(_, _, _, _, _, _)
RepetitionLoop(W, A, segs, i, removed, st) ==
  IF i > Len(segs) THEN [removed |-> removed, stats |-> st]
  ELSE IF i \in removed THEN RepetitionLoop(W, A, segs, i + 1, removed, st)
  ELSE LET r == LaterScan(W, A, segs, i, i + 1, removed)
       IN  RepetitionLoop(W, A, segs, i + 1, r.removed,
                          IF r.found
                          THEN [st EXCEPT !.repetitions_removed = @ + 1]
                          ELSE st)

\* (variant) keep-first: the later of two similar segments is the one removed
RemoveRepetitionsKeepFirst(W, A, segs, st) ==
  LET later == {j \in 1..Len(segs) :
                  \E i \in 1..(j - 1) :
                     RatioGT(CalculateSimilarity(segs[i].text, segs[j].text),
                             RepetitionThreshold(Len(segs[i].word_indices)))}
  IN  [segments |-> KeepAt(segs, (1..Len(segs)) \ later),
       stats |-> [st EXCEPT !.repetitions_removed = @ + Cardinality(later)]]

RemoveRepetitions(W, A, segs, st) ==
  IF Len(segs) <= 1 THEN [segments |-> segs, stats |-> st]
  ELSE LET r == RepetitionLoop(W, A, segs, 1, {}, st)
       IN  [segments |-> KeepAt(segs, (1..Len(segs)) \ r.removed),
            stats |-> r.stats]

---------------------------------------------------------------------------
(* Step 5.5: _remove_phrase_stutters                                       *)

\* the tokens compared: lower case, punctuation but the apostrophe removed
CleanWords(W, indices) ==
  [k \in 1..Len(indices) |-> OnlyWordCharsApos(Strip(Lower(W[indices[k]].word)))]

\* the longest k in 2..min(6, (n - i) div 2) whose phrase at i is repeated at
\* once, 0 when none (i counts the tokens already passed)
BestK(clean_words, i) ==
  LET n == Len(clean_words)
      max_k == Min(6, (n - i) \div 2)
      ks == {k \in 2..max_k :
               SubSeq(clean_words, i + 1, i + k)
                 = SubSeq(clean_words, i + k + 1, i + 2 * k)}
  IN  IF ks = {} THEN 0 ELSE CHOOSE k \in ks : \A m \in ks : m <= k

\* (variant) the scan resumes behind the second occurrence
RECURSIVE StutterScanPastBoth(_, _, _, _)
StutterScanPastBoth(clean_words, i, to_remove, found) ==
  IF i >= Len(clean_words) THEN [to_remove |-> to_remove, found |-> found]
  ELSE LET best_k == BestK(clean_words, i)
       IN  IF best_k > 0
           THEN StutterScanPastBoth(clean_words, i + 2 * best_k,
                                    to_remove \cup ((i + 1)..(i + best_k)), found + 1)
           ELSE StutterScanPastBoth(clean_words, i + 1, to_remove, found)

\* the scan: local positions to remove, and the number of stutters found
RECURSIVE StutterScan(_, _, _, _)
StutterScan(clean_words, i, to_remove, found) ==
  IF i >= Len(clean_words) THEN [to_remove |-> to_remove, found |-> found]
  ELSE LET best_k == BestK(clean_words, i)
       IN  IF best_k > 0
           THEN StutterScan(clean_words, i + best_k,
                            to_remove \cup ((i + 1)..(i + best_k)), found + 1)
           ELSE StutterScan(clean_words, i + 1, to_remove, found)

\* the scan position after one iteration: past the first occurrence of a
\* stutter, or one token on
StutterAdvance(clean_words, i) ==
  LET best_k == BestK(clean_words, i)
  IN  IF best_k > 0 THEN i + best_k ELSE i + 1

\* the positions the scan visits from i on
RECURSIVE StutterVisits(_, _)
StutterVisits(clean_words, i) ==
  IF i >= Len(clean_words) THEN <<>>
  ELSE <<i>> \o StutterVisits(clean_words, StutterAdvance(clean_words, i))

StutterSegment(W, seg) ==
  LET indices == seg.word_indices
      r == StutterScan(CleanWords(W, indices), 0, {}, 0)
      new_indices == KeepAt(indices, (1..Len(indices)) \ r.to_remove)
  IN  [kept |-> IF new_indices = <<>> THEN <<>>
                ELSE << [seg EXCEPT !.word_indices = new_indices,
                                    !.text = TextOf(W, new_indices),
                                    !.start_time = W[new_indices[1]].start,
                                    !.end_time = W[new_indices[Len(new_indices)]].end] >>,
       counted |-> r.found]

RemovePhraseStutters(W, segs, st) ==
  LET rs == [i \in 1..Len(segs) |-> StutterSegment(W, segs[i])]
  IN  [segments |-> Flatten([i \in 1..Len(segs) |-> rs[i].kept]),
       stats |-> [st EXCEPT !.phrase_stutters_removed = @ + SumCounted(rs, 1)]]

---------------------------------------------------------------------------
(* ThoughtGrouper (thought_grouper.py).  GW is the word list handed to the *)
(* grouper; positions in it are local to the grouper.                      *)

THOUGHT_PAUSE_THRESHOLD == 80
SEMANTIC_SIMILARITY_THRESHOLD == 50

STOP_WORDS ==
  {<<"t","h","e">>, <<"a">>, <<"a","n">>, <<"i","s">>, <<"a","r","e">>,
   <<"w","a","s">>, <<"w","e","r","e">>, <<"b","e">>, <<"b","e","e","n">>,
   <<"h","a","v","e">>, <<"h","a","s">>, <<"h","a","d">>, <<"d","o">>,
   <<"d","o","e","s">>, <<"d","i","d">>, <<"w","i","l","l">>,
   <<"w","o","u","l","d">>, <<"c","o","u","l","d">>,
   <<"s","h","o","u","l","d">>, <<"m","a","y">>, <<"m","i","g","h","t">>,
   <<"c","a","n">>, <<"t","o">>, <<"o","f">>, <<"i","n">>, <<"o","n">>,
   <<"a","t">>, <<"f","o","r">>, <<"w","i","t","h">>, <<"a","s">>,
   <<"b","y">>, <<"f","r","o","m">>, <<"a","n","d">>, <<"o","r">>,
   <<"b","u","t">>, <<"i","f">>, <<"t","h","e","n">>, <<"s","o">>,
   <<"i","t">>, <<"t","h","a","t">>, <<"t","h","i","s">>,
   <<"t","h","e","s","e">>, <<"t","h","o","s","e">>, <<"i">>, <<"y","o","u">>,
   <<"h","e">>, <<"s","h","e">>, <<"w","e">>, <<"t","h","e","y">>,
   <<"m","e">>, <<"h","i","m">>, <<"h","e","r">>, <<"u","s">>,
   <<"t","h","e","m">>, <<"m","y">>, <<"y","o","u","r">>, <<"h","i","s">>,
   <<"o","u","r">>, <<"t","h","e","i","r">>}

\* _extract_keywords
ExtractKeywords(text) ==
  {w \in Range(Split(StripPunct(Lower(text)))) : w \notin STOP_WORDS /\ Len(w) > 2}

\* _calculate_semantic_similarity
CalculateSemanticSimilarity(text1, text2) ==
  Jaccard(ExtractKeywords(text1), ExtractKeywords(text2))

Sentence(GW, cur, endIdx) ==
  [word_indices |-> cur,
   start_time |-> GW[cur[1]].start,
   end_time |-> GW[endIdx].end,
   text |-> Join([k \in 1..Len(cur) |-> GW[cur[k]].word])]

\* _group_into_sentences: a sentence ends at terminal punctuation, or at a
\* pause above 0.5 s once it holds more than 3 words.  SentenceLoop is the
\* loop over the words and yields the word positions of each sentence; the
\* sentence records are built from them, each ending at its last word
RECURSIVE SentenceLoop(_, _, _)
SentenceLoop(GW, i, cur) ==
  IF i > Len(GW)
  THEN (IF cur = <<>> THEN <<>> ELSE <<cur>>)
  ELSE LET cur2 == Append(cur, i)
           ends_with_punctuation == EndsWithTerminal(RStrip(GW[i].word))
           has_pause == i < Len(GW) /\ GW[i + 1].start - GW[i].end > 50
       IN  IF Len(cur2) > 0 /\ (ends_with_punctuation \/ (has_pause /\ Len(cur2) > 3))
           THEN <<cur2>> \o SentenceLoop(GW, i + 1, <<>>)
           ELSE SentenceLoop(GW, i + 1, cur2)

GroupIntoSentences(GW) ==
  LET found == SentenceLoop(GW, 1, <<>>)
  IN  [k \in 1..Len(found) |-> Sentence(GW, found[k], found[k][Len(found[k])])]

\* _create_thought_from_sentences
CreateThoughtFromSentences(sents) ==
  LET all_word_indices == Flatten([k \in 1..Len(sents) |-> sents[k].word_indices])
  IN  [word_indices |-> all_word_indices,
       start_time |-> sents[1].start_time,
       end_time |-> sents[Len(sents)].end_time,
       text |-> Join([k \in 1..Len(sents) |-> sents[k].text]),
       sentence_count |-> Len(sents),
       word_count |-> Len(all_word_indices),
       coherence_score |-> 0,
       type |-> "unknown"]

\* _merge_sentences_into_thoughts
ShouldMerge(prev_sentence, curr_sentence) ==
  \/ curr_sentence.start_time - prev_sentence.end_time < THOUGHT_PAUSE_THRESHOLD
  \/ RatioGT(CalculateSemanticSimilarity(prev_sentence.text, curr_sentence.text),
             SEMANTIC_SIMILARITY_THRESHOLD)

RECURSIVE MergeLoop(_, _, _)
MergeLoop(sents, i, current) ==
  IF i > Len(sents) THEN <<CreateThoughtFromSentences(current)>>
  ELSE IF ShouldMerge(sents[i - 1], sents[i])
       THEN MergeLoop(sents, i + 1, Append(current, sents[i]))
       ELSE <<CreateThoughtFromSentences(current)>>
            \o MergeLoop(sents, i + 1, <<sents[i]>>)

MergeSentencesIntoThoughts(sents) ==
  IF sents = <<>> THEN <<>> ELSE MergeLoop(sents, 2, <<sents[1]>>)

Subjects == {<<"i">>, <<"y","o","u">>, <<"h","e">>, <<"s","h","e">>,
             <<"i","t">>, <<"w","e">>, <<"t","h","e","y">>,
             <<"t","h","i","s">>, <<"t","h","a","t">>}

Verbs ==
  {<<"i","s">>, <<"a","r","e">>, <<"w","a","s">>, <<"w","e","r","e">>,
   <<"b","e">>, <<"b","e","e","n">>, <<"b","e","i","n","g">>,
   <<"h","a","v","e">>, <<"h","a","s">>, <<"h","a","d">>, <<"d","o">>,
   <<"d","o","e","s">>, <<"d","i","d">>, <<"w","i","l","l">>,
   <<"w","o","u","l","d">>, <<"c","o","u","l","d">>,
   <<"s","h","o","u","l","d">>, <<"c","a","n">>, <<"m","a","y">>, <<"g","o">>,
   <<"g","o","e","s">>, <<"w","e","n","t">>, <<"c","o","m","e">>,
   <<"c","a","m","e">>, <<"g","e","t">>, <<"g","o","t">>, <<"m","a","k","e">>,
   <<"m","a","d","e">>, <<"s","e","e">>, <<"s","a","w">>, <<"k","n","o","w">>,
   <<"k","n","e","w">>, <<"t","h","i","n","k">>, <<"w","a","n","t">>,
   <<"n","e","e","d">>, <<"l","i","k","e">>, <<"l","o","v","e">>,
   <<"h","a","t","e">>}

\* a subject/verb check that asks for both
HasSubjectAndVerb(text) ==
  LET ws == Range(Split(Lower(text)))
  IN  (ws \cap Subjects # {}) /\ (ws \cap Verbs # {})

\* _has_subject_verb: either a subject or a verb is enough
HasSubjectVerb(text) ==
  LET ws == Range(Split(Lower(text)))
  IN  (ws \cap Subjects # {}) \/ (ws \cap Verbs # {})

\* (variant) a score that starts below one half
CoherenceScoreFromLow(thought) ==
  LET score == 30
               + (IF HasSubjectVerb(thought.text) THEN 20 ELSE 0)
               + (IF EndsWithTerminal(RStrip(thought.text)) THEN 15 ELSE 0)
               + (IF thought.word_count >= 3 THEN 10 ELSE 0)
               + (IF 3 <= thought.word_count /\ thought.word_count <= 30
                  THEN 5 ELSE 0)
  IN  Min(100, Max(0, score))

\* _score_coherence, in hundredths
CoherenceScore(thought) ==
  LET score == 50
               + (IF HasSubjectVerb(thought.text) THEN 20 ELSE 0)
               + (IF EndsWithTerminal(RStrip(thought.text)) THEN 15 ELSE 0)
               + (IF thought.word_count >= 3 THEN 10 ELSE 0)
               + (IF 3 <= thought.word_count /\ thought.word_count <= 30
                  THEN 5 ELSE 0)
  IN  Min(100, Max(0, score))

\* _check_exact_phrase_match: four consecutive words of text1, joined by
\* single spaces, occur in the lower-cased text2
CheckExactPhraseMatch(text1, text2) ==
  LET words1 == Split(Lower(text1))
  IN  \E i \in 1..(Len(words1) - 3) :
         Contains(Lower(text2), Join(SubSeq(words1, i, i + 3)))

\* _classify_thought_types
ThoughtType(thoughts, i) ==
  LET thought == thoughts[i]
      repeats == \E p \in Max(1, i - 20)..(i - 1) :
                    \/ RatioGT(CalculateSemanticSimilarity(thought.text,
                                                           thoughts[p].text), 60)
                    \/ CheckExactPhraseMatch(thought.text, thoughts[p].text)
      aside == /\ i > 1
               /\ i < Len(thoughts)
               /\ RatioLT(CalculateSemanticSimilarity(thought.text,
                                                      thoughts[i - 1].text), 20)
               /\ RatioLT(CalculateSemanticSimilarity(thought.text,
                                                      thoughts[i + 1].text), 20)
  IN  IF thought.word_count < 3 /\ thought.coherence_score < 50 THEN "filler"
      ELSE IF repeats THEN "repetition"
      ELSE IF aside THEN "tangent"
      ELSE "main_point"

\* group_into_thoughts
GroupIntoThoughts(GW) ==
  IF GW = <<>> THEN <<>>
  ELSE LET merged == MergeSentencesIntoThoughts(GroupIntoSentences(GW))
           scored == [i \in 1..Len(merged) |->
                        [merged[i] EXCEPT !.coherence_score = CoherenceScore(merged[i])]]
       IN  [i \in 1..Len(scored) |->
              [scored[i] EXCEPT !.type = ThoughtType(scored, i)]]

---------------------------------------------------------------------------
(* Step 6: _semantic_filtering                                             *)

\* seg['word_indices'][0] of a segment without words: IndexError
SemanticRaises(segs) == \E k \in 1..Len(segs) : segs[k].word_indices = <<>>

\* all_words: the words of the segments in order; all_words[k].original_idx
AllWordIndices(segs) == Flatten([k \in 1..Len(segs) |-> segs[k].word_indices])

\* thought.get('repeated_thought_idx') is not None
HasSource(thought) == "repeated_thought_idx" \in DOMAIN thought

\* the safety abort of keep-last: the source stays
KeepLastAborted(thoughts, i) ==
  LET thought == thoughts[i]
      source_thought == thoughts[thought.repeated_thought_idx]
  IN  \/ source_thought.word_count > 50 /\ thought.word_count < 10
      \/ RatioLT(CalculateSimilarity(source_thought.text, thought.text), 95)

\* the repetitions dropped because their source is unknown
FallbackRemoved(thoughts) ==
  {i \in 1..Len(thoughts) :
     /\ thoughts[i].type = "repetition"
     /\ ~HasSource(thoughts[i])
     /\ thoughts[i].word_count < 8}

SourcesRemoved(thoughts) ==
  {thoughts[i].repeated_thought_idx :
     i \in {j \in 1..Len(thoughts) :
              /\ thoughts[j].type = "repetition"
              /\ HasSource(thoughts[j])
              /\ ~KeepLastAborted(thoughts, j)}}

FillersRemoved(A, GW, thoughts) ==
  {i \in 1..Len(thoughts) :
     /\ thoughts[i].type = "filler"
     /\ thoughts[i].word_count <= 3
     /\ thoughts[i].coherence_score < 60
     /\ ~(HasAnalyzer(A)
          /\ AvgEnergy(A, GW, thoughts[i].start_time, thoughts[i].end_time) > 120)}

\* segments_by_first_idx[orig_idx]: the last segment that starts with it
SegmentByFirstIdx(segs, orig_idx) ==
  LET at == {k \in 1..Len(segs) : segs[k].word_indices[1] = orig_idx}
  IN  IF at = {} THEN <<>>
      ELSE <<segs[CHOOSE k \in at : \A j \in at : j <= k]>>

\* the segments reached from the words of one surviving thought
SegmentsOfThought(segs, all_idx, thought) ==
  Flatten([k \in 1..Len(thought.word_indices) |->
             SegmentByFirstIdx(segs, all_idx[thought.word_indices[k]])])

SemanticFiltering(W, A, segs, st) ==
  IF segs = <<>> THEN [segments |-> <<>>, stats |-> st]
  ELSE LET all_idx == AllWordIndices(segs)
           GW == [k \in 1..Len(all_idx) |-> W[all_idx[k]]]
           thoughts == GroupIntoThoughts(GW)
           fallback == FallbackRemoved(thoughts)
           indices_to_remove == fallback \cup SourcesRemoved(thoughts)
                                  \cup FillersRemoved(A, GW, thoughts)
       IN  [segments |->
              Flatten([i \in 1..Len(thoughts) |->
                         IF i \in indices_to_remove THEN <<>>
                         ELSE SegmentsOfThought(segs, all_idx, thoughts[i])]),
            stats |-> [st EXCEPT !.repetitions_removed = @ + Cardinality(fallback)]]

---------------------------------------------------------------------------
(* Step 6.2: _llm_semantic_pass.  self.llm_editor is None when the import  *)
(* of LLMEditor failed ("none"); otherwise it is an LLMEditor, a class     *)
(* that has the attributes api_key and model and no attribute client.      *)

\* self.llm_editor.client is evaluated: AttributeError
LlmPassRaises(editor, segs) == segs # <<>> /\ editor # "none"

LlmSemanticPass(editor, segs) == segs

---------------------------------------------------------------------------
(* Step 6.5: _apply_ml_overrides.  use_ml is False when the ML imports     *)
(* failed ("absent"); RoughCutModel.model is None until a model has been   *)
(* trained ("untrained").  predict() of a trained model hands              *)
(* extract_features one argument more than it takes: TypeError.            *)

MlOverridesRaise(model, segs) == segs # <<>> /\ model = "trained"

ApplyMlOverrides(model, segs) == segs

---------------------------------------------------------------------------
(* Final step: _finalize_segments                                          *)

PADDING_START == 15
PADDING_END == 15

\* (variant) the length test runs before the deleted words are filtered
FinalClipCountsDeleted(W, seg) ==
  LET filtered_indices == LiveIndices(W, seg.word_indices)
  IN  IF Len(seg.word_indices) < MIN_SEGMENT_LENGTH \/ filtered_indices = <<>>
      THEN <<>>
      ELSE << [start |-> Max(0, W[filtered_indices[1]].start - PADDING_START),
               end |-> W[filtered_indices[Len(filtered_indices)]].end + PADDING_END,
               text |-> TextOf(W, filtered_indices),
               word_count |-> Len(filtered_indices),
               word_indices |-> filtered_indices] >>

\* (variant) the padded start is not clamped at 0
FinalClipUnclamped(W, seg) ==
  LET filtered_indices == LiveIndices(W, seg.word_indices)
  IN  IF Len(filtered_indices) < MIN_SEGMENT_LENGTH THEN <<>>
      ELSE << [start |-> W[filtered_indices[1]].start - PADDING_START,
               end |-> W[filtered_indices[Len(filtered_indices)]].end + PADDING_END,
               text |-> TextOf(W, filtered_indices),
               word_count |-> Len(filtered_indices),
               word_indices |-> filtered_indices] >>

FinalClip(W, seg) ==
  LET filtered_indices == LiveIndices(W, seg.word_indices)
  IN  IF Len(filtered_indices) < MIN_SEGMENT_LENGTH THEN <<>>
      ELSE << [start |-> Max(0, W[filtered_indices[1]].start - PADDING_START),
               end |-> W[filtered_indices[Len(filtered_indices)]].end + PADDING_END,
               text |-> TextOf(W, filtered_indices),
               word_count |-> Len(filtered_indices),
               word_indices |-> filtered_indices] >>

FinalizeSegments(W, segs) ==
  Flatten([k \in 1..Len(segs) |-> FinalClip(W, segs[k])])


---------------------------------------------------------------------------
(* get_statistics: durations in centiseconds, reduction_percentage in      *)
(* tenths of a percent.                                                    *)

\* round(n / d) for d > 0: the nearest integer, a half to the even one
RoundedRatio(n, d) ==
  LET q == (2 * n + d) \div (2 * d)
  IN  IF (2 * n + d) % (2 * d) = 0 /\ q % 2 = 1 THEN q - 1 ELSE q

RECURSIVE SumDurations(_, _)
SumDurations(segs, k) ==
  IF k > Len(segs) THEN 0
  ELSE (segs[k].end - segs[k].start) + SumDurations(segs, k + 1)

GetStatistics(W, segs, st) ==
  LET original_duration == IF W # <<>> THEN W[Len(W)].end - W[1].start ELSE 0
      final_duration == IF segs # <<>> THEN SumDurations(segs, 1) ELSE 0
  IN  [stats |-> st,
       segment_count |-> Len(segs),
       original_duration |-> original_duration,
       final_duration |-> final_duration,
       time_saved |-> original_duration - final_duration,
       reduction_percentage |->
         IF original_duration > 0
         THEN RoundedRatio(1000 * (original_duration - final_duration),
                           original_duration)
         ELSE 0]

---------------------------------------------------------------------------
(* The transcripts analysed.  A transcript is built from tokens and the    *)
(* pause before each token; every word lasts WordLen.                      *)

WordLen == 20
MaxTokens == 7
MaxPhrase == 3

RECURSIVE MakeWordsFrom(_, _, _, _)
MakeWordsFrom(tokens, gaps, k, t) ==
  IF k > Len(tokens) THEN <<>>
  ELSE <<[word |-> tokens[k], start |-> t + gaps[k], end |-> t + gaps[k] + WordLen]>>
       \o MakeWordsFrom(tokens, gaps, k + 1, t + gaps[k] + WordLen)

MakeWords(tokens, gaps) == MakeWordsFrom(tokens, gaps, 1, 0)

\* two takes, the second one after a pause
PairGaps(p, q, first, pause) ==
  [k \in 1..(Len(p) + Len(q)) |->
     IF k = 1 THEN first ELSE IF k = Len(p) + 1 THEN pause ELSE 0]

NoAudio == [kind |-> "none", speech |-> <<>>, gap |-> 0]
UnreadyAudio == [kind |-> "unready", speech |-> <<>>, gap |-> 0]

\* a ready analyzer: level e1 on the first take, e2 on the second, and g in
\* the pauses
PairAudio(p, q, e1, e2, g) ==
  [kind |-> "ready",
   speech |-> [k \in 1..(Len(p) + Len(q)) |-> IF k <= Len(p) THEN e1 ELSE e2],
   gap |-> g]

Run(W, A, editor, model) ==
  [words |-> W, audio |-> A, llm_editor |-> editor, ml_model |-> model]

Phrases ==
  { <<<<"I">>, <<"w","a","n","t">>, <<"t","o">>, <<"b","u","y">>,
     <<"m","i","l","k",".">>>>,
    <<<<"I">>, <<"w","a","n","t">>, <<"t","o">>, <<"b","u","y">>,
     <<"b","r","e","a","d",".">>>>,
    <<<<"S","o">>, <<"I">>, <<"w","a","n","t">>, <<"t","o">>, <<"b","u","y">>,
     <<"m","i","l","k",".">>>>,
    <<<<"I">>, <<"w","a","n","t">>, <<"t","o">>, <<"b","u","y">>,
     <<"m","i","l","k">>>>,
    <<<<"t","h","a","n","k">>, <<"y","o","u",".">>>>,
    <<<<"I">>, <<"t","h","i","n","k">>, <<"i","t">>, <<"w","a","s">>,
     <<"g","r","e","a","t",".">>>>,
    <<<<"A","c","t","u","a","l","l","y">>, <<"c","u","t">>,
     <<"t","h","a","t",",">>, <<"i","t">>, <<"w","a","s">>,
     <<"t","e","r","r","i","b","l","e",".">>>>,
    <<<<"I">>, <<"t","h","i","n","k">>, <<"w","e">>,
     <<"s","h","o","u","l","d">>, <<"a","n","d">>>> }

Pauses == {0, 100, 250}

\* every ordered pair of takes, without an analyzer
PairRuns ==
  {Run(MakeWords(p \o q, PairGaps(p, q, 0, g)), NoAudio, "none", "absent") :
     p \in Phrases, q \in Phrases, g \in Pauses}

\* every ordered pair of takes again, under an analyzer that failed to load
\* its media
UnreadyRuns ==
  {Run(MakeWords(p \o q, PairGaps(p, q, 0, g)), UnreadyAudio, "none", "absent") :
     p \in Phrases, q \in Phrases, g \in Pauses}

LoudPhrases ==
  { <<<<"I">>, <<"w","a","n","t">>, <<"t","o">>, <<"b","u","y">>,
     <<"m","i","l","k",".">>>>,
    <<<<"S","o">>, <<"I">>, <<"w","a","n","t">>, <<"t","o">>, <<"b","u","y">>,
     <<"m","i","l","k",".">>>>,
    <<<<"t","h","a","n","k">>, <<"y","o","u">>, <<"v","e","r","y">>,
     <<"m","u","c","h",".">>>> }

Levels == {<<500, 100>>, <<125, 100>>, <<100, 100>>}

\* near-identical takes under an analyzer
LoudAudio(p, q) ==
  {UnreadyAudio} \cup {PairAudio(p, q, l[1], l[2], 0) : l \in Levels}

LoudRuns ==
  UNION {{Run(MakeWords(pq[1] \o pq[2], PairGaps(pq[1], pq[2], 0, g)),
              a, "none", "absent") :
            g \in {0, 250}, a \in LoudAudio(pq[1], pq[2])} :
         pq \in LoudPhrases \X LoudPhrases}

\* pauses around the silence threshold, under every kind of analyzer and
\* every state of the optional LLM and ML components
GapRuns ==
  LET p == <<<<"I">>, <<"w","a","n","t">>, <<"t","o">>, <<"b","u","y">>,
            <<"m","i","l","k",".">>>>
      q == <<<<"t","h","e","n">>, <<"w","e">>, <<"a","l","l">>,
            <<"w","a","l","k","e","d">>, <<"h","o","m","e",".">>>>
  IN  {Run(MakeWords(p \o q, PairGaps(p, q, 0, g)), a, e, m) :
         g \in {SILENCE_THRESHOLD - 1, SILENCE_THRESHOLD, SILENCE_THRESHOLD + 1,
                SENTENCE_SPLIT_GAP + 1},
         a \in {NoAudio, UnreadyAudio} \cup
               {PairAudio(p, q, 100, 100, l) : l \in {0, 80, 81, 101}},
         e \in {"none", "real"},
         m \in {"absent", "untrained", "trained"}}

\* the token strings of one segment, for the stutter scan
RECURSIVE Strings(_, _)
Strings(alphabet, n) ==
  IF n = 0 THEN {<<>>}
  ELSE {Append(s, c) : s \in Strings(alphabet, n - 1), c \in alphabet}

Zeros(n) == [k \in 1..n |-> 0]

StutterRuns ==
  LET short == UNION {Strings({<<"n","o">>, <<"G","o",".">>}, n) : n \in 1..MaxTokens}
      triple == {p \o p \o p :
                   p \in UNION {Strings({<<"w","e","l","l">>, <<"I">>,
                                         <<"h","a","v","e">>}, n) : n \in 2..MaxPhrase}}
      said == { <<<<"w","e","l","l">>, <<"I">>, <<"h","a","v","e">>,
                 <<"w","e","l","l">>, <<"I">>, <<"h","a","v","e">>,
                 <<"a","l","r","e","a","d","y">>, <<"g","o","n","e">>>>,
                <<<<"s","o">>, <<"w","e">>, <<"g","o">>, <<"n","o","w">>,
                 <<"t","o">>, <<"t","h","e">>, <<"s","o">>, <<"w","e">>,
                 <<"g","o">>, <<"n","o","w">>, <<"t","o">>, <<"t","h","e">>,
                 <<"s","h","o","p">>>>,
                <<<<"i","t","'","s">>, <<"i","t","'","s">>, <<"a">>,
                 <<"b","i","g">>, <<"i","t","'","s">>, <<"a">>,
                 <<"b","i","g">>, <<"m","i","s","t","a","k","e">>>>,
                <<<<"w","e">>, <<"g","o">>, <<"n","o","w">>, <<"w","e">>,
                 <<"g","o">>, <<"w","e">>, <<"g","o">>, <<"n","o","w">>>> }
  IN  {Run(MakeWords(t, Zeros(Len(t))), NoAudio, "none", "absent") :
         t \in short \cup triple \cup said}

\* words flagged isDeleted, and a first word that starts at or near 0
Flagged(W, mask) ==
  [k \in 1..Len(W) |->
     IF k \in mask THEN [word |-> W[k].word, start |-> W[k].start,
                         end |-> W[k].end, isDeleted |-> TRUE]
     ELSE W[k]]

DeletedRuns ==
  LET p == <<<<"I">>, <<"t","h","i","n","k">>, <<"i","t">>, <<"w","a","s">>,
            <<"g","r","e","a","t",".">>>>
  IN  {Run(Flagged(MakeWords(p, [Zeros(Len(p)) EXCEPT ![1] = first]), mask),
           NoAudio, "none", "absent") :
         first \in {0, 5, PADDING_START, 30}, mask \in SUBSET (1..Len(p))}

\* word records that lack a key
Without(w, key) == [f \in DOMAIN w \ {key} |-> w[f]]

MalformedRuns ==
  LET p == <<<<"I">>, <<"w","a","n","t">>, <<"t","o">>, <<"b","u","y">>,
            <<"m","i","l","k",".">>>>
      W == MakeWords(p, Zeros(Len(p)))
      F == Flagged(W, {2})
  IN  {Run(<<>>, a, e, m) : a \in {NoAudio, UnreadyAudio},
                            e \in {"none", "real"},
                            m \in {"absent", "untrained", "trained"}}
      \cup {Run([W EXCEPT ![k] = Without(W[k], key)], NoAudio, "none", "absent") :
              k \in 1..Len(W), key \in {"word", "start", "end"}}
      \cup {Run([F EXCEPT ![2] = Without(F[2], "word")], NoAudio, "none", "absent")}

\* word records whose text holds more than one token
SpacedRuns ==
  LET said == { << <<"o","k",".",",">>, <<"c","u","t">>, <<"t","h","a","t">>, <<"w"," ","x"," ","y"," ","z">> >>,
                << <<"f","i","r","s","t">>, <<"p","a","r","t",".",",">>, <<"c","u","t">>, <<"t","h","a","t">>, <<"w"," ","x">>, <<"y"," ","z"," ","k">> >>,
                << <<"a">>, <<"b",".",",">>, <<"c","u","t">>, <<"t","h","a","t">>, <<"w","e">>, <<"g","o">>, <<"h","o","m","e">> >>,
                << <<"I"," ","w","a","n","t"," ","t","o">>, <<"b","u","y"," ","m","i","l","k"," ","t","o","d","a","y",".">> >> }
  IN  {Run(MakeWords(t, Zeros(Len(t))), NoAudio, "none", "absent") : t \in said}

\* takes that end differently, one of them inside a word of the other
DivergentRuns ==
  LET milk == <<<<"I">>, <<"w","a","n","t">>, <<"t","o">>, <<"b","u","y">>, <<"m","i","l","k",".">>>>
      milkshake == <<<<"I">>, <<"w","a","n","t">>, <<"t","o">>, <<"b","u","y">>, <<"m","i","l","k","s","h","a","k","e",".">>>>
  IN  {Run(MakeWords(pq[1] \o pq[2], PairGaps(pq[1], pq[2], 0, g)),
           NoAudio, "none", "absent") :
         pq \in {<<milk, milkshake>>, <<milkshake, milk>>}, g \in {100, 250}}

\* the letters of a cut signal at the start of a segment and inside a word
SignalRuns ==
  LET said == { <<<<"C","u","t">>, <<"t","h","a","t">>, <<"w","e">>, <<"g","o",".">>>>,
                <<<<"A">>, <<"s","h","o","r","t","c","u","t">>, <<"t","h","a","t">>, <<"w","o","r","k","s",".">>>> }
  IN  {Run(MakeWords(t, Zeros(Len(t))), NoAudio, "none", "absent") : t \in said}

\* words behind the last terminal mark of a segment: a mark inside a word
\* or in front of a comma does not end the segment
TrailingRuns ==
  LET pairs == { << <<<<"H","e">>, <<"s","a","i","d">>, <<"s","t","o","p",".",",">>, <<"a","n","d">>>>,
                    <<<<"s","o">>, <<"w","e">>, <<"l","e","f","t",".">>>> >>,
                 << <<<<"T","h","e">>, <<"U",".","S">>, <<"i","s">>>>,
                    <<<<"i","t">>, <<"w","o","r","k","s",".">>>> >>,
                 << <<<<"t","h","a","n","k">>, <<"y","o","u",".">>>>,
                    <<<<"W","e">>, <<"g","o">>, <<"h","o","m","e",".",",">>, <<"a","n","d">>>> >> }
  IN  {Run(MakeWords(pq[1] \o pq[2], PairGaps(pq[1], pq[2], 0, 100)),
           NoAudio, "none", "absent") : pq \in pairs}

\* a segment that a stage leaves without words, next to one that stays
EmptiedRuns ==
  LET pairs == { << <<<<"W","e">>, <<"g","o">>, <<"h","o","m","e",".">>>>,
                    <<<<"a","n","d">>>> >>,
                 << <<<<"a","n","d">>>>,
                    <<<<"W","e">>, <<"g","o">>, <<"h","o","m","e",".">>>> >>,
                 << <<<<"o","h">>, <<"c","u","t">>, <<"t","h","a","t">>>>,
                    <<<<"W","e">>, <<"g","o">>, <<"h","o","m","e",".">>>> >> }
  IN  {Run(MakeWords(pq[1] \o pq[2], PairGaps(pq[1], pq[2], 0, 100)),
           NoAudio, "none", "absent") : pq \in pairs}

\* a sentence and, after a pause, a word or two that earn no coherence
\* bonus, said softly or loudly
FillerRuns ==
  LET p == <<<<"W","e">>, <<"w","e","n","t">>, <<"h","o","m","e",".">>>>
      fillers == {<<<<"u","m">>>>, <<<<"o","h">>, <<"o","k">>>>}
  IN  {Run(MakeWords(p \o q, PairGaps(p, q, 0, 100)),
           IF l = 0 THEN NoAudio ELSE PairAudio(p, q, 100, l, 0),
           "none", "absent") :
         q \in fillers, l \in {0, 100, 500}}

\* three takes of one sentence, a pause after each
TripleRuns ==
  LET triples == { << <<<<"I">>, <<"w","a","n","t">>, <<"t","o">>, <<"b","u","y">>, <<"m","i","l","k",".">>>>,
                      <<<<"I">>, <<"w","a","n","t">>, <<"t","o">>, <<"b","u","y">>, <<"m","i","l","k",",">>, <<"o","k">>>>,
                      <<<<"I">>, <<"w","a","n","t">>, <<"t","o">>, <<"b","u","y">>>> >>,
                   << <<<<"I">>, <<"w","a","n","t">>, <<"t","o">>, <<"b","u","y">>, <<"m","i","l","k",".">>>>,
                      <<<<"I">>, <<"w","a","n","t">>, <<"t","o">>, <<"b","u","y">>, <<"m","i","l","k">>, <<"t","o","d","a","y",".">>>>,
                      <<<<"I">>, <<"w","a","n","t">>, <<"t","o">>, <<"b","u","y">>, <<"m","i","l","k">>>> >>,
                   << <<<<"I">>, <<"w","a","n","t">>, <<"t","o">>, <<"b","u","y",".">>>>,
                      <<<<"I">>, <<"w","a","n","t">>, <<"t","o">>, <<"b","u","y">>, <<"m","i","l","k",".">>>>,
                      <<<<"I">>, <<"w","a","n","t">>, <<"t","o">>, <<"b","u","y">>, <<"m","i","l","k">>, <<"o","k","a","y",".">>>> >> }
  IN  {Run(MakeWords(t[1] \o t[2] \o t[3],
                     PairGaps(t[1], t[2], 0, 100) \o PairGaps(<<>>, t[3], 100, 100)),
           NoAudio, "none", "absent") : t \in triples}

Runs == PairRuns \cup UnreadyRuns \cup LoudRuns \cup GapRuns \cup StutterRuns
          \cup DeletedRuns \cup MalformedRuns \cup SpacedRuns \cup DivergentRuns
          \cup SignalRuns \cup TrailingRuns \cup EmptiedRuns \cup FillerRuns
          \cup TripleRuns

---------------------------------------------------------------------------
(* The parts around the engine keep state of their own.  While one part    *)
(* runs the others are at rest.                                            *)

analysis_vars ==
  <<words, audio, llm_editor, ml_model, segments, prev, stats, pc, clips>>

scheduler_vars == <<data_file, state_file, checked>>

registry_vars == <<tasks, lock, worker, poller>>

lifecycle_vars == <<clock, threads>>

\* no call of start_background_task yet
LifecycleAtRest ==
  /\ clock = 1
  /\ threads = <<>>

\* an engine that has been handed no words and has not run
AnalysisAtRest ==
  /\ words = <<>>
  /\ audio = NoAudio
  /\ llm_editor = "none"
  /\ ml_model = "absent"
  /\ segments = <<>>
  /\ prev = <<>>
  /\ stats = ZeroStats
  /\ clips = <<>>
  /\ pc = "split"

---------------------------------------------------------------------------
(* MLScheduler.  data_file is the decisions file, by the number of its     *)
(* labelled records; state_file is the saved state; checked is the report  *)
(* of the last check_and_train: the count it read, the last_trained_count  *)
(* it found, what it decided, and the number of checks so far.             *)

min_samples_to_train == 50
new_samples_threshold == 20

\* the state file __init__ writes when there is none
FreshState == [last_trained_count |-> 0, last_trained_timestamp |-> 0]

NotChecked ==
  [labeled_count |-> 0, last_count |-> 0, found |-> FreshState,
   decision |-> "none", checks |-> 0]

SchedulerAtRest ==
  /\ data_file = [exists |-> FALSE, labeled |-> 0]
  /\ state_file = FreshState
  /\ checked = NotChecked

\* the numbers of labelled records a decisions file may hold
MaxChecks == 3
LabeledCounts == {0, 19, 20, 49, 50, 60, 69, 70, 85, 89, 90}

\* the user's decisions are written to the decisions file, or the file is
\* written anew
WriteData ==
  /\ checked.checks < MaxChecks
  /\ \E n \in LabeledCounts : data_file' = [exists |-> TRUE, labeled |-> n]
  /\ UNCHANGED <<state_file, checked, analysis_vars, registry_vars, grouper, lifecycle_vars>>

\* (variant) any file with enough labelled records is trained on
ShouldTrainOnEnough(labeled_count, last_count) ==
  labeled_count >= min_samples_to_train

\* the decision of check_and_train
ShouldTrain(labeled_count, last_count) ==
  /\ labeled_count >= min_samples_to_train
  /\ labeled_count - last_count >= new_samples_threshold

\* _train: the state is saved behind model.train(), so a train() that raises
\* leaves the state file as it was
Train(current_count, train, now) ==
  IF train = "raises" THEN state_file
  ELSE [last_trained_count |-> current_count,
        last_trained_timestamp |-> now,
        latest_metrics |-> "None"]

Report(labeled_count, last_count, decision) ==
  [labeled_count |-> labeled_count, last_count |-> last_count,
   found |-> state_file, decision |-> decision, checks |-> checked.checks + 1]

\* check_and_train, with a model.train() that returns or raises
CheckAndTrain ==
  /\ checked.checks < MaxChecks
  /\ \E train \in {"returns", "raises"} :
       IF ~data_file.exists
       THEN /\ checked' = Report(0, state_file.last_trained_count, "no_data")
            /\ UNCHANGED state_file
       ELSE LET labeled_count == data_file.labeled
                last_count == state_file.last_trained_count
            IN  IF ShouldTrain(labeled_count, last_count)
                THEN /\ state_file' = Train(labeled_count, train, checked.checks + 1)
                     /\ checked' = Report(labeled_count, last_count,
                                          IF train = "raises" THEN "failed"
                                          ELSE "trained")
                ELSE /\ checked' = Report(labeled_count, last_count, "skipped")
                     /\ UNCHANGED state_file
  /\ UNCHANGED <<data_file, analysis_vars, registry_vars, grouper, lifecycle_vars>>

---------------------------------------------------------------------------
(* background_tasks.  tasks is TaskRegistry._tasks, lock is its _lock;     *)
(* worker is the thread run_background_task starts, poller a caller of     *)
(* get_task_status.  A TaskStatus is given by the fields that change:      *)
(* None is "None" for result and error and 0 for completed_at.             *)

task_id == "task-1"

TaskStatus(status) ==
  [status |-> status, progress |-> 0, result |-> "None", error |-> "None",
   completed_at |-> 0]

\* the keyword arguments of an update_task: only those named by keys are read
Kwargs == TaskStatus("pending")

IdleWorker ==
  [pc |-> "idle", kwargs |-> Kwargs, keys |-> <<>>,
   then |-> "idle", calls |-> 0]

IdlePoller ==
  [pc |-> "idle", found |-> FALSE, reads |-> <<>>,
   snapshot |-> TaskStatus("pending"), instants |-> {}, polls |-> 0]

RegistryAtRest ==
  /\ tasks = <<>>
  /\ lock = "free"
  /\ worker = IdleWorker
  /\ poller = IdlePoller

MaxCallbacks == 1
MaxPolls == 2

\* start_background_task: create_task under the lock, then the thread starts
StartBackgroundTask ==
  /\ worker.pc = "idle"
  /\ task_id \notin DOMAIN tasks
  /\ lock = "free"
  /\ tasks' = [id \in {task_id} |-> TaskStatus("pending")]
  /\ worker' = [worker EXCEPT !.pc = "wrapper"]
  /\ UNCHANGED <<lock, poller, analysis_vars, scheduler_vars, grouper, lifecycle_vars>>

\* update_task up to the first setattr: the lock is taken; kwargs carries the
\* values and keys the order in which they were passed
UpdateTask(kwargs, keys, then, calls) ==
  /\ lock = "free"
  /\ lock' = "worker"
  /\ worker' = [pc |-> "setattr", kwargs |-> kwargs, keys |-> keys,
                then |-> then, calls |-> calls]
  /\ UNCHANGED <<tasks, poller, analysis_vars, scheduler_vars, grouper, lifecycle_vars>>

\* the task states that existed while a poller was between get_task and its
\* return
Observe(task) ==
  IF poller.pc = "read"
  THEN [poller EXCEPT !.instants = @ \cup {task}]
  ELSE poller

\* update_task: one setattr of the loop over kwargs
SetAttr ==
  /\ worker.pc = "setattr"
  /\ worker.keys # <<>>
  /\ LET key == Head(worker.keys)
         task == [tasks[task_id] EXCEPT ![key] = worker.kwargs[key]]
     IN  /\ tasks' = [tasks EXCEPT ![task_id] = task]
         /\ poller' = Observe(task)
  /\ worker' = [worker EXCEPT !.keys = Tail(@)]
  /\ UNCHANGED <<lock, analysis_vars, scheduler_vars, grouper, lifecycle_vars>>

\* update_task: the end of the with block
ReleaseLock ==
  /\ worker.pc = "setattr"
  /\ worker.keys = <<>>
  /\ lock' = "free"
  /\ worker' = [worker EXCEPT !.pc = worker.then]
  /\ UNCHANGED <<tasks, poller, analysis_vars, scheduler_vars, grouper, lifecycle_vars>>

\* wrapper: update_task(status="processing")
WrapperStarts ==
  /\ worker.pc = "wrapper"
  /\ UpdateTask([Kwargs EXCEPT !.status = "processing"], <<"status">>,
                "func", worker.calls)

Progresses == {50, 100}

\* progress_callback, called by func
ProgressCallback ==
  /\ worker.pc = "func"
  /\ worker.calls < MaxCallbacks
  /\ \E progress \in Progresses :
       UpdateTask([Kwargs EXCEPT !.progress = progress], <<"progress">>,
                  "func", worker.calls + 1)

\* wrapper: func returned a result at time now
FuncReturns ==
  /\ worker.pc = "func"
  /\ UpdateTask([Kwargs EXCEPT !.status = "completed", !.progress = 100,
                                      !.result = "result", !.completed_at = 1],
                <<"status", "progress", "result", "completed_at">>,
                "done", worker.calls)

\* wrapper: func raised
FuncRaises ==
  /\ worker.pc = "func"
  /\ UpdateTask([Kwargs EXCEPT !.status = "failed", !.error = "str(e)",
                                      !.completed_at = 1],
                <<"status", "error", "completed_at">>,
                "done", worker.calls)

\* get_task_status: get_task under the lock; None for an unknown task
GetTask ==
  /\ poller.pc \in {"idle", "returned"}
  /\ poller.polls < MaxPolls
  /\ lock = "free"
  /\ poller' =
       IF task_id \in DOMAIN tasks
       THEN [pc |-> "read", found |-> TRUE,
             reads |-> <<"status", "progress", "result", "error", "completed_at">>,
             snapshot |-> TaskStatus("pending"),
             instants |-> {tasks[task_id]}, polls |-> poller.polls + 1]
       ELSE [pc |-> "returned", found |-> FALSE, reads |-> <<>>,
             snapshot |-> TaskStatus("pending"),
             instants |-> {}, polls |-> poller.polls + 1]
  /\ UNCHANGED <<tasks, lock, worker, analysis_vars, scheduler_vars, grouper, lifecycle_vars>>

\* get_task_status: one attribute of the task is read into the dict, with no
\* lock held; the dict is returned behind the last one
ReadAttr ==
  /\ poller.pc = "read"
  /\ LET key == Head(poller.reads)
     IN  poller' = [poller EXCEPT
                      !.snapshot = [@ EXCEPT ![key] = tasks[task_id][key]],
                      !.reads = Tail(@),
                      !.pc = IF Len(poller.reads) = 1 THEN "returned" ELSE "read"]
  /\ UNCHANGED <<tasks, lock, worker, analysis_vars, scheduler_vars, grouper, lifecycle_vars>>

---------------------------------------------------------------------------
(* ThoughtGrouper, run on its own.  grouper is the object: its words, the  *)
(* thoughts list that group_into_thoughts builds and then scores and       *)
(* classifies in place, and the step the call has reached.                 *)

GrouperAtRest == grouper = [words |-> <<>>, thoughts |-> <<>>, pc |-> "idle"]

MaxFill == 30

\* word lists of one thought: an opening, a run of one word said over, an end
OneThought ==
  LET heads == {<<>>, <<<<"I">>>>, <<<<"g","o">>>>, <<<<"I">>, <<"g","o">>>>}
      fills == {0, 1, 2, MaxFill - 3, MaxFill - 2, MaxFill - 1, MaxFill}
      tails == {<<>>, <<<<"o","k">>>>, <<<<"o","k",".">>>>}
  IN  {h \o [k \in 1..n |-> <<"a">>] \o t : h \in heads, n \in fills, t \in tails}

\* word lists of two thoughts: the second one is said after a pause
TwoThoughts ==
  LET first == {<<<<"W","e">>, <<"w","e","n","t">>, <<"h","o","m","e",".">>>>, <<<<"u","m">>>>}
      second == {<<<<"u","m">>>>, <<<<"u","m",".">>>>, <<<<"o","k">>, <<"u","m">>>>, <<<<"I">>>>,
                 <<<<"W","e">>, <<"w","e","n","t">>, <<"h","o","m","e",".">>>>,
                 <<<<"t","h","e","n">>, <<"w","e">>, <<"a","l","l">>, <<"w","a","l","k","e","d">>, <<"h","o","m","e",".">>>>}
  IN  {MakeWords(p \o q, PairGaps(p, q, 0, 250)) : p \in first, q \in second}

GrouperInputs == {MakeWords(t, Zeros(Len(t))) : t \in OneThought} \cup TwoThoughts

GrouperInit ==
  /\ \E W \in GrouperInputs : grouper = [words |-> W, thoughts |-> <<>>, pc |-> "group"]
  /\ AnalysisAtRest
  /\ SchedulerAtRest
  /\ RegistryAtRest
  /\ LifecycleAtRest

\* group_into_thoughts, steps 1 and 2; no words: return []
GroupStep ==
  /\ grouper.pc = "group"
  /\ grouper' =
       IF grouper.words = <<>> THEN [grouper EXCEPT !.pc = "done"]
       ELSE [grouper EXCEPT
               !.thoughts = MergeSentencesIntoThoughts(GroupIntoSentences(grouper.words)),
               !.pc = "score"]
  /\ UNCHANGED <<analysis_vars, scheduler_vars, registry_vars, lifecycle_vars>>

\* step 3: _score_coherence
ScoreStep ==
  /\ grouper.pc = "score"
  /\ grouper' =
       [grouper EXCEPT
          !.thoughts = [i \in 1..Len(grouper.thoughts) |->
                          [grouper.thoughts[i] EXCEPT
                             !.coherence_score = CoherenceScore(grouper.thoughts[i])]],
          !.pc = "classify"]
  /\ UNCHANGED <<analysis_vars, scheduler_vars, registry_vars, lifecycle_vars>>

\* step 4: _classify_thought_types
ClassifyStep ==
  /\ grouper.pc = "classify"
  /\ grouper' =
       [grouper EXCEPT
          !.thoughts = [i \in 1..Len(grouper.thoughts) |->
                          [grouper.thoughts[i] EXCEPT
                             !.type = ThoughtType(grouper.thoughts, i)]],
          !.pc = "done"]
  /\ UNCHANGED <<analysis_vars, scheduler_vars, registry_vars, lifecycle_vars>>

GrouperNext ==
  \/ GroupStep
  \/ ScoreStep
  \/ ClassifyStep

GrouperSpec == GrouperInit /\ [][GrouperNext]_vars

---------------------------------------------------------------------------
(* background_tasks under several calls.  clock is time.time() in          *)
(* milliseconds; threads holds, for each call of start_background_task in  *)
(* turn, the id it computed and where its wrapper thread stands.  Every    *)
(* method of the registry runs under the lock, so a create_task or an      *)
(* update_task is one step for every other thread.                         *)

MaxCalls == 2
MaxClock == 2

\* f"task-{int(time.time() * 1000)}"
TaskId(ms) == <<"task", ms>>

\* time passes
Tick ==
  /\ clock < MaxClock
  /\ clock' = clock + 1
  /\ UNCHANGED <<threads, analysis_vars, scheduler_vars, registry_vars, grouper>>

\* TaskRegistry.create_task: the entry is written whether or not one exists
CreateTask(id) ==
  [x \in DOMAIN tasks \cup {id} |->
     IF x = id THEN TaskStatus("pending") ELSE tasks[x]]

\* TaskRegistry.update_task: every keyword is set on the entry, if there is one
UpdatedTasks(id, kwargs) ==
  [x \in DOMAIN tasks |->
     IF x = id
     THEN [key \in DOMAIN tasks[x] |->
             IF key \in DOMAIN kwargs THEN kwargs[key] ELSE tasks[x][key]]
     ELSE tasks[x]]

\* start_background_task: the id, create_task, and the thread is started
StartCall ==
  /\ Len(threads) < MaxCalls
  /\ tasks' = CreateTask(TaskId(clock))
  /\ threads' = Append(threads, [task_id |-> TaskId(clock), pc |-> "wrapper",
                                 calls |-> 0])
  /\ UNCHANGED <<clock, lock, worker, poller, analysis_vars, scheduler_vars, grouper>>

\* wrapper of call t: update_task(status="processing")
ThreadStarts(t) ==
  /\ threads[t].pc = "wrapper"
  /\ tasks' = UpdatedTasks(threads[t].task_id, [status |-> "processing"])
  /\ threads' = [threads EXCEPT ![t].pc = "func"]
  /\ UNCHANGED <<clock, lock, worker, poller, analysis_vars, scheduler_vars, grouper>>

\* func of call t calls progress_callback
ThreadProgress(t) ==
  /\ threads[t].pc = "func"
  /\ threads[t].calls < MaxCallbacks
  /\ tasks' = UpdatedTasks(threads[t].task_id, [progress |-> 50])
  /\ threads' = [threads EXCEPT ![t].calls = @ + 1]
  /\ UNCHANGED <<clock, lock, worker, poller, analysis_vars, scheduler_vars, grouper>>

\* func of call t returns: the wrapper marks the task completed
ThreadReturns(t) ==
  /\ threads[t].pc = "func"
  /\ tasks' = UpdatedTasks(threads[t].task_id,
                           [status |-> "completed", progress |-> 100,
                            result |-> ToString(t), completed_at |-> clock])
  /\ threads' = [threads EXCEPT ![t].pc = "ended"]
  /\ UNCHANGED <<clock, lock, worker, poller, analysis_vars, scheduler_vars, grouper>>

\* func of call t raises: the wrapper marks the task failed
ThreadRaises(t) ==
  /\ threads[t].pc = "func"
  /\ tasks' = UpdatedTasks(threads[t].task_id,
                           [status |-> "failed", error |-> ToString(t),
                            completed_at |-> clock])
  /\ threads' = [threads EXCEPT ![t].pc = "ended"]
  /\ UNCHANGED <<clock, lock, worker, poller, analysis_vars, scheduler_vars, grouper>>

LifecycleInit ==
  /\ AnalysisAtRest
  /\ SchedulerAtRest
  /\ RegistryAtRest
  /\ GrouperAtRest
  /\ LifecycleAtRest

LifecycleNext ==
  \/ Tick
  \/ StartCall
  \/ \E t \in 1..Len(threads) : ThreadStarts(t)
  \/ \E t \in 1..Len(threads) : ThreadProgress(t)
  \/ \E t \in 1..Len(threads) : ThreadReturns(t)
  \/ \E t \in 1..Len(threads) : ThreadRaises(t)

LifecycleSpec == LifecycleInit /\ [][LifecycleNext]_vars

---------------------------------------------------------------------------
(* The scheduler and the registry, each run on its own.                    *)

SchedulerInit ==
  /\ AnalysisAtRest /\ SchedulerAtRest /\ RegistryAtRest /\ GrouperAtRest
  /\ LifecycleAtRest

SchedulerNext ==
  \/ WriteData
  \/ CheckAndTrain

SchedulerSpec == SchedulerInit /\ [][SchedulerNext]_vars

RegistryInit ==
  /\ AnalysisAtRest /\ SchedulerAtRest /\ RegistryAtRest /\ GrouperAtRest
  /\ LifecycleAtRest

RegistryNext ==
  \/ StartBackgroundTask
  \/ WrapperStarts
  \/ ProgressCallback
  \/ FuncReturns
  \/ FuncRaises
  \/ SetAttr
  \/ ReleaseLock
  \/ GetTask
  \/ ReadAttr

RegistrySpec == RegistryInit /\ [][RegistryNext]_vars

---------------------------------------------------------------------------
(* analyze(): one action for each step.  pc names the step to run next;    *)
(* prev is the segment list the last step received.                        *)

Init ==
  /\ \E r \in Runs :
        /\ words = r.words
        /\ audio = r.audio
        /\ llm_editor = r.llm_editor
        /\ ml_model = r.ml_model
  /\ segments = <<>>
  /\ prev = <<>>
  /\ stats = ZeroStats
  /\ clips = <<>>
  /\ pc = "split"
  /\ SchedulerAtRest
  /\ RegistryAtRest
  /\ GrouperAtRest
  /\ LifecycleAtRest

Raise ==
  /\ pc' = "raised"
  /\ UNCHANGED <<words, audio, llm_editor, ml_model, segments, prev, stats, clips>>
  /\ UNCHANGED <<scheduler_vars, registry_vars, grouper, lifecycle_vars>>

Step(next, result) ==
  /\ segments' = result.segments
  /\ stats' = result.stats
  /\ prev' = segments
  /\ pc' = next
  /\ UNCHANGED <<words, audio, llm_editor, ml_model, clips>>
  /\ UNCHANGED <<scheduler_vars, registry_vars, grouper, lifecycle_vars>>

SplitStep ==
  /\ pc = "split"
  /\ IF SplitRaises(words) THEN Raise
     ELSE Step("scrub", SplitBySilence(words, audio, stats))

ScrubStep ==
  /\ pc = "scrub"
  /\ Step("refine", TextualScrub(segments, stats))

RefineStep ==
  /\ pc = "refine"
  /\ IF RefineRaises(words, segments) THEN Raise
     ELSE Step("cut_that", [segments |-> RefineSegmentation(words, audio, segments),
                            stats |-> stats])

CutThatStep ==
  /\ pc = "cut_that"
  /\ Step("incomplete", ProcessCutThatSignals(words, segments, stats))

IncompleteStep ==
  /\ pc = "incomplete"
  /\ Step("takes", RemoveIncompleteSentences(words, segments, stats))

TakesStep ==
  /\ pc = "takes"
  /\ Step("repetitions", ProcessIncrementalTakes(words, audio, segments, stats))

RepetitionsStep ==
  /\ pc = "repetitions"
  /\ Step("stutters", RemoveRepetitions(words, audio, segments, stats))

StuttersStep ==
  /\ pc = "stutters"
  /\ Step("semantic", RemovePhraseStutters(words, segments, stats))

SemanticStep ==
  /\ pc = "semantic"
  /\ IF SemanticRaises(segments) THEN Raise
     ELSE Step("llm", SemanticFiltering(words, audio, segments, stats))

LlmStep ==
  /\ pc = "llm"
  /\ IF LlmPassRaises(llm_editor, segments) THEN Raise
     ELSE Step("ml", [segments |-> LlmSemanticPass(llm_editor, segments),
                      stats |-> stats])

\* (variant) the ML step hands the list back to the semantic filter
MlStepAgain ==
  /\ pc = "ml"
  /\ pc' = "semantic"
  /\ UNCHANGED <<words, audio, llm_editor, ml_model, segments, prev, stats, clips>>
  /\ UNCHANGED <<scheduler_vars, registry_vars, grouper, lifecycle_vars>>

MlStep ==
  /\ pc = "ml"
  /\ IF ml_model # "absent" /\ MlOverridesRaise(ml_model, segments) THEN Raise
     ELSE Step("finalize", [segments |-> ApplyMlOverrides(ml_model, segments),
                            stats |-> stats])

FinalizeStep ==
  /\ pc = "finalize"
  /\ clips' = FinalizeSegments(words, segments)
  /\ pc' = "done"
  /\ UNCHANGED <<words, audio, llm_editor, ml_model, segments, prev, stats>>
  /\ UNCHANGED <<scheduler_vars, registry_vars, grouper, lifecycle_vars>>

Next ==
  \/ SplitStep
  \/ ScrubStep
  \/ RefineStep
  \/ CutThatStep
  \/ IncompleteStep
  \/ TakesStep
  \/ RepetitionsStep
  \/ StuttersStep
  \/ SemanticStep
  \/ LlmStep
  \/ MlStep
  \/ FinalizeStep

Spec == Init /\ [][Next]_vars

---------------------------------------------------------------------------
(* analyze() as a function of its inputs: the steps above, composed.  The  *)
(* outcome is the position the run ends in, the clip list and the counters. *)

Outcome(at, result, final) ==
  [pc |-> at, segments |-> result.segments, stats |-> result.stats,
   clips |-> final]

AnalyzeFromLlm(W, editor, model, r) ==
  IF LlmPassRaises(editor, r.segments) THEN Outcome("raised", r, <<>>)
  ELSE LET llm == LlmSemanticPass(editor, r.segments)
       IN  IF model # "absent" /\ MlOverridesRaise(model, llm)
           THEN Outcome("raised", [r EXCEPT !.segments = llm], <<>>)
           ELSE LET ml == ApplyMlOverrides(model, llm)
                IN  Outcome("done", [r EXCEPT !.segments = ml],
                            FinalizeSegments(W, ml))

AnalyzeFromRefine(W, A, editor, model, r) ==
  LET refined == RefineSegmentation(W, A, r.segments)
      cut == ProcessCutThatSignals(W, refined, r.stats)
      trimmed == RemoveIncompleteSentences(W, cut.segments, cut.stats)
      takes == ProcessIncrementalTakes(W, A, trimmed.segments, trimmed.stats)
      repetitions == RemoveRepetitions(W, A, takes.segments, takes.stats)
      stutters == RemovePhraseStutters(W, repetitions.segments, repetitions.stats)
  IN  IF SemanticRaises(stutters.segments) THEN Outcome("raised", stutters, <<>>)
      ELSE AnalyzeFromLlm(W, editor, model,
                          SemanticFiltering(W, A, stutters.segments, stutters.stats))

Analyze(W, A, editor, model) ==
  IF SplitRaises(W) THEN Outcome("raised", [segments |-> <<>>, stats |-> ZeroStats], <<>>)
  ELSE LET split == SplitBySilence(W, A, ZeroStats)
           scrubbed == TextualScrub(split.segments, split.stats)
       IN  IF RefineRaises(W, scrubbed.segments) THEN Outcome("raised", scrubbed, <<>>)
           ELSE AnalyzeFromRefine(W, A, editor, model, scrubbed)

\* the outcome of the run in hand
Ended == pc \in {"done", "raised"}

Current == [pc |-> pc, segments |-> segments, stats |-> stats, clips |-> clips]

\* the steps of the run end where the composed function does
AnalyzeAgrees ==
  Ended => Current = Analyze(words, audio, llm_editor, ml_model)

---------------------------------------------------------------------------

(* Properties of analyze().                                                *)

\* the word indices of the final clips, in order
ClipIndices == Flatten([k \in 1..Len(clips) |-> clips[k].word_indices])

\* C1: conservation - after analyze() every clip's word_indices are indices
\* of the input word array, and no index occurs twice in the final clip
\* list, neither in two clips nor twice in one clip.
C1_Conservation ==
  pc = "done" =>
    /\ \A k \in 1..Len(ClipIndices) : ClipIndices[k] \in 1..Len(words)
    /\ \A j, k \in 1..Len(ClipIndices) : j # k => ClipIndices[j] # ClipIndices[k]

\* words i and j lie in one segment
Together(i, j) ==
  \E k \in 1..Len(segments) : {i, j} \subseteq Range(segments[k].word_indices)

\* the pause after word i is silent for the analyzer, or there is none
QuietAfter(i) ==
  \/ audio.kind = "none"
  \/ AvgEnergy(audio, words, words[i].end, words[i + 1].start) = 0

\* C6: silence threshold - in the output of the silence splitter two
\* consecutive words with a gap above SILENCE_THRESHOLD and zero audio
\* energy (or no analyzer) lie in different segments, and two consecutive
\* words with a gap of at most SILENCE_THRESHOLD lie in the same segment.
C6_SilenceThreshold ==
  pc = "scrub" =>
    \A i \in 1..(Len(words) - 1) :
       LET g == words[i + 1].start - words[i].end
       IN  /\ (g > SILENCE_THRESHOLD /\ QuietAfter(i)) => ~Together(i, i + 1)
           /\ g <= SILENCE_THRESHOLD => Together(i, i + 1)

C6_Witness ==
  /\ pc = "scrub"
  /\ audio.kind = "ready"
  /\ Len(segments) = 2
  /\ \E i \in 1..(Len(words) - 1) :
        /\ words[i + 1].start - words[i].end = SILENCE_THRESHOLD + 1
        /\ QuietAfter(i)
        /\ ~Together(i, i + 1)

\* the words of a segment that are not flagged isDeleted
Surviving(seg) ==
  {k \in 1..Len(seg.word_indices) : ~IsDeleted(words[seg.word_indices[k]])}

\* C7: minimum length - every clip of the finalizer has at least 3 words,
\* word_count counts its word_indices and none of them is flagged
\* isDeleted; a segment with fewer than 3 surviving words gives no clip.
C7_MinimumLength ==
  pc = "done" =>
    /\ \A c \in 1..Len(clips) :
          /\ clips[c].word_count >= 3
          /\ clips[c].word_count = Len(clips[c].word_indices)
          /\ \A k \in 1..Len(clips[c].word_indices) :
                ~IsDeleted(words[clips[c].word_indices[k]])
    /\ \A s \in 1..Len(segments) :
          Cardinality(Surviving(segments[s])) < 3 =>
            Range(segments[s].word_indices) \cap Range(ClipIndices) = {}

C7_Witness ==
  /\ pc = "done"
  /\ \E s \in 1..Len(segments) :
        /\ Len(segments[s].word_indices) = 5
        /\ Cardinality(Surviving(segments[s])) = 3
        /\ \E c \in 1..Len(clips) :
              /\ clips[c].word_count = 3
              /\ Range(clips[c].word_indices) \subseteq Range(segments[s].word_indices)

\* C8: padding bound - no clip starts before time 0, also when its first
\* surviving word starts at 0 or earlier than the padding.
C8_PaddingBound ==
  pc = "done" => \A c \in 1..Len(clips) : clips[c].start >= 0

C8_Witness ==
  /\ pc = "done"
  /\ \E c \in 1..Len(clips) :
        /\ words[clips[c].word_indices[1]].start < PADDING_START
        /\ clips[c].start = 0

\* C10: an empty word list, or one that holds a record without its start,
\* end or word, makes analyze() return an empty clip list without raising.
C10_MalformedYieldsEmpty ==
  (words = <<>> \/ \E i \in 1..Len(words) : ~WellFormed(words[i])) =>
    /\ pc # "raised"
    /\ pc = "done" => clips = <<>>

---------------------------------------------------------------------------
(* Two takes: a transcript of exactly two sentences, A and then B.         *)

Terminals ==
  {i \in 1..Len(words) : WellFormed(words[i]) /\ EndsWithTerminal(words[i].word)}

EndOfA == CHOOSE i \in Terminals : \A j \in Terminals : i <= j

TwoTakes ==
  /\ \A i \in 1..Len(words) : WellFormed(words[i]) /\ ~IsDeleted(words[i])
  /\ Cardinality(Terminals) = 2
  /\ Len(words) \in Terminals

TakeA == 1..EndOfA
TakeB == (EndOfA + 1)..Len(words)
TextA == TextOf(words, [k \in 1..EndOfA |-> k])
TextB == TextOf(words, [k \in 1..(Len(words) - EndOfA) |-> EndOfA + k])

\* a clip holds exactly these words / no clip holds any of them
Retained(S) == \E c \in 1..Len(clips) : Range(clips[c].word_indices) = S
Dropped(S) == Range(ClipIndices) \cap S = {}

\* similarity above the length-weighted threshold of the earlier segment
AboveThreshold(a, b) ==
  LET n == Len(a.word_indices)
  IN  RatioGT(CalculateSimilarity(a.text, b.text),
              IF n <= 3 THEN 95 ELSE IF n <= 6 THEN 90 ELSE 85)

\* the earlier segment is more than 1.2 times as loud as the later one
EnergyOverride(a, b) ==
  /\ audio.kind # "none"
  /\ 10 * AvgEnergy(audio, words, a.start_time, a.end_time)
       > 12 * AvgEnergy(audio, words, b.start_time, b.end_time)

\* segments i < j of the repetition remover's input are near-identical, in
\* its window, and without energy override
KeepLastPair(i, j) ==
  /\ i < j
  /\ j <= i + 9
  /\ prev[j].start_time - prev[i].end_time <= 6000
  /\ AboveThreshold(prev[i], prev[j])
  /\ ~EnergyOverride(prev[i], prev[j])

C3_AudioOverride ==
  (pc = "done" /\ TwoTakes /\ audio.kind = "ready"
   /\ RatioGT(CalculateSimilarity(TextA, TextB),
              IF EndOfA <= 3 THEN 95 ELSE IF EndOfA <= 6 THEN 90 ELSE 85)
   /\ 10 * audio.speech[1] > 12 * audio.speech[EndOfA + 1])
  => (Retained(TakeA) /\ Dropped(TakeB))

\* C4: divergence protection - two takes that share their 4-word
\* normalized prefix and each hold a keyword the other lacks are both
\* retained in the output of analyze().
C4_DivergenceProtection ==
  (pc = "done" /\ TwoTakes
   /\ Len(GetPrefix(TextA)) = 4
   /\ GetPrefix(TextA) = GetPrefix(TextB)
   /\ GetKeywords(TextA) \ GetKeywords(TextB) # {}
   /\ GetKeywords(TextB) \ GetKeywords(TextA) # {})
  => (Retained(TakeA) /\ Retained(TakeB))

---------------------------------------------------------------------------
(* Cut signals.                                                            *)

\* token c of the text opens the signal: "cut" and then "that" or "this"
SignalAt(toks, c) ==
  /\ c < Len(toks)
  /\ OnlyWordChars(Lower(toks[c])) = <<"c","u","t">>
  /\ OnlyWordChars(Lower(toks[c + 1])) \in {<<"t","h","a","t">>,
                                            <<"t","h","i","s">>}

\* a segment of the form "X cut that, S2": one token for each word, a signal
\* behind a first part X that holds no terminal mark, and words S2 behind it
PlainSignal(seg, c) ==
  LET toks == Split(seg.text)
  IN  /\ Len(toks) = Len(seg.word_indices)
      /\ HasCutSignal(seg)
      /\ c > 1
      /\ c + 1 < Len(toks)
      /\ SignalAt(toks, c)
      /\ \A b \in 1..(c - 1) :
            ~SignalAt(toks, b) /\ RFindAny(toks[b], TerminalPunct) = 0

\* the transcript "S1. X cut that, S2.": two sentences, the signal in the
\* second one
CutTranscript(c) ==
  /\ TwoTakes
  /\ \A b \in TakeA : ~SignalAt([k \in 1..Len(words) |-> words[k].word], b)
  /\ PlainSignal([text |-> TextB,
                  word_indices |-> [k \in 1..(Len(words) - EndOfA) |-> EndOfA + k]],
                 c - EndOfA)

---------------------------------------------------------------------------
(* Phrase stutters, on a stutter remover that received one segment.        *)

Tokens == CleanWords(words, prev[1].word_indices)
TokensOut == CleanWords(words, segments[1].word_indices)

\* the phrase of k tokens behind position i is said again at once
StutterAt(t, i, k) ==
  /\ i + 2 * k <= Len(t)
  /\ SubSeq(t, i + 1, i + k) = SubSeq(t, i + k + 1, i + 2 * k)

Stutters(t) == {ik \in (0..Len(t)) \X (2..6) : StutterAt(t, ik[1], ik[2])}

\* t is P P P for a phrase P of k tokens
Triple(t, k) ==
  /\ Len(t) = 3 * k
  /\ \A i \in 1..(2 * k) : t[i] = t[i + k]

\* the local positions the remover dropped
RemovedPositions ==
  {p \in 1..Len(Tokens) :
     prev[1].word_indices[p] \notin Range(segments[1].word_indices)}

\* the first occurrence of the first stutter is removed, what is in front
\* of it stays, and every removed token is said again 2 to 6 tokens later
FirstOccurrenceRemoved ==
  /\ \A p \in RemovedPositions :
        \E k \in 2..6 : p + k <= Len(Tokens) /\ Tokens[p] = Tokens[p + k]
  /\ Len(Tokens) \notin RemovedPositions
  /\ Stutters(Tokens) = {} => RemovedPositions = {}
  /\ Stutters(Tokens) # {} =>
       LET first == CHOOSE ik \in Stutters(Tokens) :
                       \A o \in Stutters(Tokens) :
                          \/ ik[1] < o[1]
                          \/ ik[1] = o[1] /\ ik[2] >= o[2]
       IN  /\ (1..first[1]) \cap RemovedPositions = {}
           /\ ((first[1] + 1)..(first[1] + first[2])) \subseteq RemovedPositions

SaidExample ==
  Tokens = <<<<"w","e","l","l">>, <<"i">>, <<"h","a","v","e">>,
            <<"w","e","l","l">>, <<"i">>, <<"h","a","v","e">>,
            <<"a","l","r","e","a","d","y">>, <<"g","o","n","e">>>>
    => TokensOut = <<<<"w","e","l","l">>, <<"i">>, <<"h","a","v","e">>,
                    <<"a","l","r","e","a","d","y">>, <<"g","o","n","e">>>>

---------------------------------------------------------------------------
(* The collaborators.                                                      *)

\* C11: the LLM fluff pass is fail-open - with the collaborator absent, not
\* configured or failing, the pass returns the segment list it received,
\* leaves the counters alone and the run goes on to the next step.
C11_LlmFailOpen ==
  [][pc = "llm" => /\ pc' = "ml"
                   /\ segments' = segments
                   /\ stats' = stats]_vars

\* C12: the ML override is fail-open - with no trained model loaded, or with
\* a predict() that raises, the override returns the segment list it
\* received and the run goes on to the final step.
C12_MlFailOpen ==
  [][pc = "ml" => /\ pc' = "finalize"
                  /\ segments' = segments]_vars

\* C13: audio degradation - a run under an analyzer that answers every
\* get_features call with the empty result ends as the run on the same words
\* with no analyzer at all ends: it is aborted only where that run is, and
\* its clip list and its counters are the same.
C13_AudioDegradation ==
  (Ended /\ audio.kind = "unready") =>
     LET silent == Analyze(words, NoAudio, llm_editor, ml_model)
     IN  /\ pc = silent.pc
         /\ clips = silent.clips
         /\ stats = silent.stats

\* a finished run under an unready analyzer that met a true silence and a
\* pair of near-identical takes
C13_Witness ==
  /\ pc = "done"
  /\ audio.kind = "unready"
  /\ clips # <<>>
  /\ stats.silences_removed > 0
  /\ stats.repetitions_removed > 0

---------------------------------------------------------------------------
(* One forward pass.                                                       *)

Stages ==
  <<"split", "scrub", "refine", "cut_that", "incomplete", "takes",
    "repetitions", "stutters", "semantic", "llm", "ml", "finalize", "done">>

\* one step of the run: from a stage to the stage behind it, or out of the
\* run by an exception
Forward ==
  \E k \in 1..(Len(Stages) - 1) :
     pc = Stages[k] /\ pc' \in {Stages[k + 1], "raised"}

Increasing(seq) == \A k \in 1..(Len(seq) - 1) : seq[k] < seq[k + 1]

\* the scan of the stutter remover over the segment: its positions advance,
\* stay inside the segment, and the stutters found at them are the ones the
\* remover takes out
ScanAdvances(seg) ==
  LET clean == CleanWords(words, seg.word_indices)
      visits == StutterVisits(clean, 0)
  IN  /\ Increasing(visits)
      /\ Len(visits) <= Len(clean)
      /\ StutterScan(clean, 0, {}, 0).to_remove
           = UNION {(visits[k] + 1)..(visits[k] + BestK(clean, visits[k])) :
                      k \in 1..Len(visits)}

\* the while loop of the take consolidator visits every index once, in order
ConsolidatorAdvances(segs) ==
  LET visits == TakesVisits(segs, 1)
  IN  Increasing(visits) /\ visits = [k \in 1..Len(segs) |-> k]

\* the number of steps a run at this position has left at most
Remaining(at) ==
  IF at = "raised" THEN 0
  ELSE Len(Stages) - (CHOOSE k \in 1..Len(Stages) : Stages[k] = at)

---------------------------------------------------------------------------
\* C15 (as stated): after every check_and_train, if the count it read was at
\* least 50 and at least 20 above the last_trained_count it found, the saved
\* last_trained_count is that count; otherwise the saved state is the one it
\* found; and the saved last_trained_count is not below the one it found.
C15_TriggeredTrainingRecords ==
  checked.checks > 0 =>
    /\ IF checked.labeled_count >= 50 /\ checked.labeled_count - checked.last_count >= 20
       THEN state_file.last_trained_count = checked.labeled_count
       ELSE state_file = checked.found
    /\ state_file.last_trained_count >= checked.found.last_trained_count

\* C15 (amended): check_and_train calls model.train() exactly when the count
\* it read is at least 50 and at least 20 above the last_trained_count it
\* found; a training that returns saves that count as last_trained_count; a
\* training that raises, and a check that does not train, leave the saved
\* state as found; so last_trained_count never decreases.
C15_TrainingThatReturnsRecords ==
  /\ [](checked.checks > 0 =>
          /\ checked.decision \in {"trained", "failed"}
               <=> /\ checked.labeled_count >= 50
                   /\ checked.labeled_count - checked.last_count >= 20
          /\ checked.decision = "trained"
               => state_file.last_trained_count = checked.labeled_count
          /\ checked.decision # "trained" => state_file = checked.found)
  /\ [][state_file'.last_trained_count >= state_file.last_trained_count]_vars

\* a second training: 85 labelled records, 25 above the 60 trained on before
C15_Witness ==
  /\ checked.decision = "trained"
  /\ checked.last_count = 60
  /\ checked.labeled_count = 85
  /\ state_file.last_trained_count = 85

---------------------------------------------------------------------------
\* C16: every snapshot get_task_status returns is the state the task had at
\* one instant between the call and the return; a snapshot with status
\* "completed" has progress 100, a result and completed_at; a snapshot with
\* status "failed" has an error and completed_at.
C16_SnapshotOfOneInstant ==
  (poller.pc = "returned" /\ poller.found) =>
    /\ poller.snapshot \in poller.instants
    /\ poller.snapshot.status = "completed" =>
         /\ poller.snapshot.progress = 100
         /\ poller.snapshot.result # "None"
         /\ poller.snapshot.completed_at # 0
    /\ poller.snapshot.status = "failed" =>
         /\ poller.snapshot.error # "None"
         /\ poller.snapshot.completed_at # 0

---------------------------------------------------------------------------
\* the takes the consolidator gathers behind the anchor x
ClusterOf(segs, x) ==
  Range(ClusterFrom(segs, x, x + 1, Min(Len(segs), x + 9), {}))

\* x and y can meet in one cluster, and in no cluster with a third take
ClusterOfTwo(segs, x, y) ==
  /\ x < y
  /\ GetPrefix(segs[x].text) # <<>>
  /\ y \in ClusterOf(segs, x)
  /\ \A z \in (1..Len(segs)) \ {x, y} :
       /\ ClusterOf(segs, z) \cap {x, y} = {}
       /\ z \notin ClusterOf(segs, x) \cup ClusterOf(segs, y)

\* each take holds a strong keyword the other lacks
Divergent(seg_a, seg_b) ==
  /\ GetKeywords(seg_a.text) \ GetKeywords(seg_b.text) # {}
  /\ GetKeywords(seg_b.text) \ GetKeywords(seg_a.text) # {}

\* C17: two takes of one cluster that each hold a strong keyword absent from
\* the other both leave the take consolidator: neither is discarded because
\* of the pair.
C17_DivergentTakesKept ==
  pc = "repetitions" =>
    \A x, y \in 1..Len(prev) :
      (ClusterOfTwo(prev, x, y) /\ Divergent(prev[x], prev[y])) =>
        /\ prev[x] \in Range(segments)
        /\ prev[y] \in Range(segments)

---------------------------------------------------------------------------
\* the thoughts the semantic filter groups the words of its segments into
ThoughtsOf(W, segs) ==
  LET all_idx == AllWordIndices(segs)
  IN  GroupIntoThoughts([k \in 1..Len(all_idx) |-> W[all_idx[k]]])

\* thought i repeats an earlier thought and is not repeated itself later on
LastRepetition(thoughts, i) ==
  /\ thoughts[i].type = "repetition"
  /\ \A j \in (i + 1)..Len(thoughts) : thoughts[j].type # "repetition"

\* C18: a thought classified as the repetition of an earlier thought is never
\* the one the semantic filter drops: its segments are in the output.
C18_RepeatingThoughtKept ==
  (pc = "llm" /\ prev # <<>>) =>
    LET thoughts == ThoughtsOf(words, prev)
    IN  \A i \in 1..Len(thoughts) :
          LastRepetition(thoughts, i) =>
            LET kept == SegmentsOfThought(prev, AllWordIndices(prev), thoughts[i])
            IN  /\ kept # <<>>
                /\ Range(kept) \subseteq Range(segments)

---------------------------------------------------------------------------
\* str.find: the first position of needle in hay, 0 when there is none
FindFirst(hay, needle) ==
  LET at == {i \in 1..(Len(hay) - Len(needle) + 1) :
               SubSeq(hay, i, i + Len(needle) - 1) = needle}
  IN  IF at = {} THEN 0 ELSE CHOOSE i \in at : \A j \in at : i <= j

\* cut_position: where the phrase starts in the text of a segment
PhraseStart(seg) ==
  IF Contains(Lower(seg.text), CutThatText)
  THEN FindFirst(Lower(seg.text), CutThatText)
  ELSE FindFirst(Lower(seg.text), CutThisText)

\* where the k-th word of a segment starts in its text
WordOffset(W, indices, k) ==
  IF k = 1 THEN 1 ELSE Len(TextOf(W, Prefix(indices, k - 1))) + 2

\* the words of a segment that start behind the phrase
WordsAfterPhrase(W, seg) ==
  {seg.word_indices[k] : k \in {j \in 1..Len(seg.word_indices) :
     WordOffset(W, seg.word_indices, j) > PhraseStart(seg) + Len(CutThatText) - 1}}

\* the words of a segment that hold a letter of the phrase
PhraseWords(W, seg) ==
  {seg.word_indices[k] : k \in {j \in 1..Len(seg.word_indices) :
     /\ WordOffset(W, seg.word_indices, j) <= PhraseStart(seg) + Len(CutThatText) - 1
     /\ WordOffset(W, seg.word_indices, j) + Len(W[seg.word_indices[j]].word) - 1
          >= PhraseStart(seg)}}

WordsKept(segs) == UNION {Range(segs[s].word_indices) : s \in 1..Len(segs)}

\* C19: of a segment whose text holds "cut that" or "cut this", the cut signal
\* processor retains every word behind the phrase and none of the words of
\* the phrase; a segment it has cut holds words, and its times are those of
\* its first and its last word.
C19_CutSignalSurgery ==
  pc = "incomplete" =>
    /\ \A s \in 1..Len(prev) :
         (HasCutSignal(prev[s]) /\ prev[s].text = TextOf(words, prev[s].word_indices)) =>
           /\ WordsAfterPhrase(words, prev[s]) \subseteq WordsKept(segments)
           /\ PhraseWords(words, prev[s]) \cap WordsKept(segments) = {}
    /\ \A t \in 1..Len(segments) :
         segments[t] \notin Range(prev) =>
           /\ segments[t].word_indices # <<>>
           /\ segments[t].start_time = words[segments[t].word_indices[1]].start
           /\ segments[t].end_time =
                words[segments[t].word_indices[Len(segments[t].word_indices)]].end

---------------------------------------------------------------------------
IsPrefix(s, t) == Len(s) <= Len(t) /\ s = SubSeq(t, 1, Len(s))

\* out is the segment seg, cut at its end or left as it was
TruncationOf(out, seg) ==
  /\ IsPrefix(out.word_indices, seg.word_indices)
  /\ out.start_time = seg.start_time
  /\ out.end_time <= seg.end_time

\* the ways of naming, in order, an input segment for each output segment
Origins(outs, segs) ==
  {f \in [1..Len(outs) -> 1..Len(segs)] :
     \A t, u \in 1..Len(outs) : t < u => f[t] < f[u]}

\* C20: the incomplete sentence trimmer never extends a segment - each
\* segment it outputs is one of its input segments, in their order, with a
\* prefix of its word indices, its start time, and an end time not later.
C20_TrimmerOnlyTruncates ==
  pc = "takes" =>
    \E f \in Origins(segments, prev) :
      \A t \in 1..Len(segments) : TruncationOf(segments[t], prev[f[t]])

\* the surgical cut: a segment left the trimmer shorter than it came, and
\* ends earlier
C20_Witness ==
  /\ pc = "takes"
  /\ stats.incomplete_sentences > 0
  /\ \E f \in Origins(segments, prev) :
       /\ \A t \in 1..Len(segments) : TruncationOf(segments[t], prev[f[t]])
       /\ \E t \in 1..Len(segments) :
            /\ segments[t].word_indices # <<>>
            /\ Len(segments[t].word_indices) < Len(prev[f[t]].word_indices)
            /\ segments[t].end_time < prev[f[t]].end_time

---------------------------------------------------------------------------
\* the output segments that left the trimmer with fewer words than they
\* came with, under the naming f of their input segments
TrimmedUnder(f) ==
  {t \in 1..Len(segments) :
     Len(segments[t].word_indices) < Len(prev[f[t]].word_indices)}

\* the output segments that left the trimmer as they came
UntouchedUnder(f) == {t \in 1..Len(segments) : segments[t] = prev[f[t]]}

\* C21: incomplete_sentences, which only the trimmer counts, is at least the
\* number of segments that left the trimmer shorter than they came, and at
\* most the number of segments that did not leave it as they came.
C21_CountsEveryTrim ==
  pc = "takes" =>
    \A f \in Origins(segments, prev) :
      (\A t \in 1..Len(segments) : TruncationOf(segments[t], prev[f[t]])) =>
        /\ Cardinality(TrimmedUnder(f)) <= stats.incomplete_sentences
        /\ stats.incomplete_sentences <= Len(prev) - Cardinality(UntouchedUnder(f))

---------------------------------------------------------------------------
(* C22: the coherence score of a thought is 0.5, plus 0.2 for the          *)
(* subject/verb bonus, plus 0.15 when the text ends in terminal            *)
(* punctuation, plus 0.1 when word_count >= 3, plus 0.05 when              *)
(* 3 <= word_count <= 30, clamped to [0, 1]; a bonus whose condition is    *)
(* false is not granted.  Scores are in hundredths.                        *)

Scored == grouper.pc \in {"classify", "done"}

\* one of the whitespace-separated tokens of the lower-cased text is in S
HasTokenIn(text, S) ==
  \E a \in 1..Len(text), w \in S :
     LET b == a + Len(w) - 1
     IN  /\ b <= Len(text)
         /\ SubSeq(Lower(text), a, b) = w
         /\ (a = 1 \/ IsSpace(text[a - 1]))
         /\ (b = Len(text) \/ IsSpace(text[b + 1]))

HasSubjectToken(text) == HasTokenIn(text, Subjects)
HasVerbToken(text) == HasTokenIn(text, Verbs)

Clamped(score) == IF score > 100 THEN 100 ELSE IF score < 0 THEN 0 ELSE score

\* the score with the subject/verb bonus granted exactly when `pair` holds
ScoreWith(thought, pair) ==
  Clamped(50
          + (IF pair THEN 20 ELSE 0)
          + (IF EndsWithTerminal(RStrip(thought.text)) THEN 15 ELSE 0)
          + (IF thought.word_count >= 3 THEN 10 ELSE 0)
          + (IF thought.word_count >= 3 /\ thought.word_count <= 30 THEN 5 ELSE 0))

\* C22 as stated: the 0.2 bonus needs both a subject token and a verb token
C22_ScoreNeedsSubjectAndVerb ==
  Scored =>
    \A i \in 1..Len(grouper.thoughts) :
       grouper.thoughts[i].coherence_score =
         ScoreWith(grouper.thoughts[i],
                   HasSubjectToken(grouper.thoughts[i].text)
                   /\ HasVerbToken(grouper.thoughts[i].text))

\* C22 amended: the coherence score is the stated sum, with the 0.2 bonus
\* granted when the text holds a subject token or a verb token
C22_ScoreWithSubjectOrVerb ==
  Scored =>
    \A i \in 1..Len(grouper.thoughts) :
       grouper.thoughts[i].coherence_score =
         ScoreWith(grouper.thoughts[i],
                   HasSubjectToken(grouper.thoughts[i].text)
                   \/ HasVerbToken(grouper.thoughts[i].text))

\* a scored thought of more than 30 words with a subject and no verb
C22_Witness ==
  /\ grouper.pc = "classify"
  /\ \E i \in 1..Len(grouper.thoughts) :
        /\ grouper.thoughts[i].word_count > 30
        /\ HasSubjectToken(grouper.thoughts[i].text)
        /\ ~HasVerbToken(grouper.thoughts[i].text)
        /\ grouper.thoughts[i].coherence_score = 80

---------------------------------------------------------------------------
(* C23: after every pipeline stage each segment of the list has at least   *)
(* one word index, starts where the first word of its word indices starts  *)
(* and ends where the last one ends; no segment of zero words is passed on *)
(* to the next stage.                                                      *)

WellTimed(seg) ==
  /\ Len(seg.word_indices) >= 1
  /\ seg.start_time = words[seg.word_indices[1]].start
  /\ seg.end_time = words[seg.word_indices[Len(seg.word_indices)]].end

C23_SegmentsWellTimed ==
  pc \notin {"split", "raised"} =>
    \A s \in 1..Len(segments) : WellTimed(segments[s])

\* the cut signal left one segment of two without words, and dropped it
C23_Witness ==
  /\ pc = "incomplete"
  /\ stats.cut_that_signals > 0
  /\ Len(segments) < Len(prev)
  /\ segments # <<>>

---------------------------------------------------------------------------
(* C24: the final clip list is chronological: the word indices inside a    *)
(* clip are strictly increasing, and every word index of a clip is smaller *)
(* than every word index of the clip that follows it.                      *)

StrictlyIncreasing(s) == \A k \in 1..(Len(s) - 1) : s[k] < s[k + 1]

Precedes(a, b) ==
  \A j \in 1..Len(a.word_indices), k \in 1..Len(b.word_indices) :
     a.word_indices[j] < b.word_indices[k]

C24_ClipsChronological ==
  pc = "done" =>
    /\ \A c \in 1..Len(clips) : StrictlyIncreasing(clips[c].word_indices)
    /\ \A c \in 1..(Len(clips) - 1) : Precedes(clips[c], clips[c + 1])

---------------------------------------------------------------------------
(* C25: every thought that ThoughtGrouper hands to the semantic filter has *)
(* a coherence score of at least 0.5, so none is short and below 0.5, none *)
(* is typed 'filler', and the filter removes no thought as a filler.       *)

\* the words the semantic filter hands to ThoughtGrouper
FilterWords ==
  LET all_idx == AllWordIndices(segments)
  IN  [k \in 1..Len(all_idx) |-> words[all_idx[k]]]

FilterThoughts == GroupIntoThoughts(FilterWords)

Filtering == pc = "semantic" /\ segments # <<>> /\ ~SemanticRaises(segments)

C25_NoThoughtIsFiller ==
  Filtering =>
    /\ \A i \in 1..Len(FilterThoughts) :
          /\ FilterThoughts[i].coherence_score >= 50
          /\ ~(FilterThoughts[i].word_count < 3 /\ FilterThoughts[i].coherence_score < 50)
          /\ FilterThoughts[i].type # "filler"
    /\ FillersRemoved(audio, FilterWords, FilterThoughts) = {}

\* a thought of fewer than three words that earns no bonus, with an analyzer
C25_Witness ==
  /\ Filtering
  /\ HasAnalyzer(audio)
  /\ \E i \in 1..Len(FilterThoughts) :
        /\ FilterThoughts[i].word_count < 3
        /\ FilterThoughts[i].coherence_score = 50

---------------------------------------------------------------------------
(* C26: PhraseStutterRemover is idempotent: no segment it outputs still    *)
(* holds a phrase of 2 to 6 tokens that is repeated at once, so the        *)
(* remover applied to its own output removes nothing.                      *)

\* tokens[i:i+k] == tokens[i+k:i+2k] for some i and some k in 2..6
HasSelfRepeat(tokens) ==
  \E k \in 2..6 : \E i \in 0..(Len(tokens) - 2 * k) :
     SubSeq(tokens, i + 1, i + k) = SubSeq(tokens, i + k + 1, i + 2 * k)

C26_StutterRemoverIdempotent ==
  pc = "semantic" =>
    /\ \A s \in 1..Len(segments) :
          ~HasSelfRepeat(CleanWords(words, segments[s].word_indices))
    /\ RemovePhraseStutters(words, segments, stats).segments = segments

---------------------------------------------------------------------------
(* C27: TakeConsolidator never discards everything: of every cluster whose *)
(* pairs it resolves at least one member is left undiscarded, and a        *)
(* non-empty input list yields a non-empty output list.                    *)

\* the clusters of the pass in turn, each with what its pairs discarded
RECURSIVE TakeClusters(_, _, _, _, _)
TakeClusters(W, A, segs, i, discard) ==
  IF i > Len(segs) THEN <<>>
  ELSE IF i \in discard \/ GetPrefix(segs[i].text) = <<>>
  THEN TakeClusters(W, A, segs, i + 1, discard)
  ELSE LET cluster == <<i>> \o ClusterFrom(segs, i, i + 1,
                                           Min(Len(segs), i + 9), discard)
           cluster_discard == IF Len(cluster) > 1
                              THEN PairLoop(W, A, segs, cluster, 1, 0, {})
                              ELSE {}
       IN  <<[members |-> cluster, discarded |-> cluster_discard]>>
           \o TakeClusters(W, A, segs, i + 1, discard \cup cluster_discard)

ClustersOfPass ==
  IF Len(prev) < 2 THEN <<>> ELSE TakeClusters(words, audio, prev, 1, {})

C27_TakesLeaveOne ==
  pc = "repetitions" =>
    /\ \A c \in 1..Len(ClustersOfPass) :
          \E m \in 1..Len(ClustersOfPass[c].members) :
             ClustersOfPass[c].members[m] \notin ClustersOfPass[c].discarded
    /\ prev # <<>> => segments # <<>>

\* a cluster of three: the first take is discarded against the second, and
\* then discards the third
C27_Witness ==
  /\ pc = "repetitions"
  /\ Len(prev) = 3
  /\ ClustersOfPass[1].members = <<1, 2, 3>>
  /\ PairVerdict(words, audio, prev, 1, 2) = {1}
  /\ PairVerdict(words, audio, prev, 1, 3) = {3}
  /\ segments = <<prev[2]>>

---------------------------------------------------------------------------
(* C28: the final clips never overlap in source time: the padded end of a  *)
(* clip is at most the padded start of the clip that follows it, so        *)
(* final_duration is at most original_duration, and time_saved and         *)
(* reduction_percentage are never negative.                                *)

Statistics == GetStatistics(words, clips, stats)

C28_ClipsDoNotOverlap ==
  pc = "done" =>
    /\ \A c \in 1..(Len(clips) - 1) : clips[c].end <= clips[c + 1].start
    /\ Statistics.final_duration <= Statistics.original_duration
    /\ Statistics.time_saved >= 0
    /\ Statistics.reduction_percentage >= 0

---------------------------------------------------------------------------
(* C29: RepetitionRemover accounting: during the stage repetitions_removed *)
(* grows by the number of segments the stage removed.                      *)

C29_CountsEveryRemoval ==
  [][pc = "repetitions" /\ pc' = "stutters" =>
       stats'.repetitions_removed - stats.repetitions_removed
         = Len(segments) - Len(segments')]_vars

---------------------------------------------------------------------------
(* C30: task lifecycle: for any interleaving of calls, task threads and    *)
(* progress updates, each call owns a registry entry of its own, the       *)
(* status of an entry only advances pending -> processing -> completed or  *)
(* failed, and once an entry is completed or failed its status, result     *)
(* and error never change again.                                           *)

OwnEntries ==
  \A t, u \in 1..Len(threads) : t # u => threads[t].task_id # threads[u].task_id

Advances(from, to) ==
  \/ to = from
  \/ from = "pending" /\ to = "processing"
  \/ from = "processing" /\ to \in {"completed", "failed"}

Settled(id) == tasks[id].status \in {"completed", "failed"}

C30_TaskLifecycle ==
  [][/\ OwnEntries'
     /\ \A id \in DOMAIN tasks :
           /\ Advances(tasks[id].status, tasks'[id].status)
           /\ Settled(id) =>
                /\ tasks'[id].status = tasks[id].status
                /\ tasks'[id].result = tasks[id].result
                /\ tasks'[id].error = tasks[id].error]_vars

=============================================================================
